---- MODULE Spec2Model ----
(***************************************************************************)
(* GrabTheSite: the crawl orchestrator (crawler/crawl_site.py), the retry  *)
(* wrapper (utils/error_handler.py), the freshness test                    *)
(* (utils/timestamp_utils.py) and the state store (utils/state_manager.py).*)
(*                                                                         *)
(* Strings are sequences of tokens: "/" is a token of its own, so that     *)
(* str.startswith / str.endswith('/') are the prefix and last-element      *)
(* tests on sequences.                                                     *)
(***************************************************************************)
EXTENDS Integers, Sequences, FiniteSets, TLC

\* ------------------------------------------------------------------ bounds
MaxThreads == 2        \* worker threads of one run: 1..MaxThreads
MaxDepthCfg == 2       \* max_depth of one run: 0..MaxDepthCfg
MaxFilesCfg == 2       \* max_files of one run: 0..MaxFilesCfg
MaxRetryCount == 2     \* retry_count of a handler under test: 0..MaxRetryCount
MaxScriptLen == 3      \* outcomes scripted for one wrapped operation
MaxCheckpoints == 0    \* times save_interval (300 s) passes during one crawl
MaxRenders == 3        \* pages fetched with JavaScript rendering in one run
RenderWait == 2        \* ticks render_page waits: js_rendering_timeout + 10
MaxTasks == 2          \* add_task calls before Downloader.run()
MaxFailedUrls == 1     \* add_failed_url calls on one StateManager
MaxTime == 6           \* ticks of 0.5 s the clock runs on after the first request
MaxDownloaders == 2    \* Downloader objects constructed in one process
MaxInstances == 2      \* GlobalDelayManager objects created in one process

\* ------------------------------------------------------------------ strings
StartsWith(s, p) == Len(p) <= Len(s) /\ SubSeq(s, 1, Len(p)) = p

EndsWithSlash(s) == Len(s) > 0 /\ s[Len(s)] = "/"

\* "needle in haystack" of Python, on token sequences
Contains(haystack, needle) ==
    \E i \in 0..(Len(haystack) - Len(needle)) :
        SubSeq(haystack, i + 1, i + Len(needle)) = needle

\* str.lower(), token by token
LowerToken(t) ==
    CASE t = "Example.com" -> "example.com"
      [] t = "Timeout" -> "timeout"
      [] t = "Connection" -> "connection"
      [] t = "Gateway" -> "gateway"
      [] t = "Service" -> "service"
      [] t = "Unavailable" -> "unavailable"
      [] t = "Server" -> "server"
      [] t = "Client" -> "client"
      [] t = "Error" -> "error"
      [] t = "Not" -> "not"
      [] t = "Found" -> "found"
      [] t = "Read" -> "read"
      [] t = "HTTPS" -> "https"
      [] OTHER -> t

lower(s) == [i \in 1..Len(s) |-> LowerToken(s[i])]

\* ------------------------------------------------------------------ retry
\* a Python value that may be None: <<>> is None, <<v>> is the value v
None == <<>>
Some(v) == <<v>>
NoResponse == [status_code |-> 0]

\* requests.Response.__bool__ is Response.ok: false for a 4xx/5xx status
ResponseTruthy(r) == r # NoResponse /\ ~(r.status_code >= 400 /\ r.status_code < 600)

\* what one invocation of a wrapped operation can do: return, or raise
Return(value) ==
    [kind |-> "return", value |-> Some(value), response |-> NoResponse, message |-> <<>>]

Raise(response, message) ==
    [kind |-> "raise", value |-> None, response |-> response, message |-> message]

Ok == Return("html")

\* what response.raise_for_status() raises:
\* "<status> Server Error: <reason> for url: <url>"
HTTPError(status, text) ==
    Raise([status_code |-> status], text \o <<"for", "url">>)

Http503 == HTTPError(503, <<"503", "Server", "Error", "Service", "Unavailable">>)
Http504 == HTTPError(504, <<"504", "Server", "Error", "Gateway", "Timeout">>)
Http404 == HTTPError(404, <<"404", "Client", "Error", "Not", "Found">>)

ReadTimeout ==
    Raise(NoResponse, <<"HTTPS", "pool", "Read", "timed", "out", "read", "timeout", "10">>)

SSLError == Raise(NoResponse, <<"HTTPS", "pool", "certificate", "verify", "failed">>)

Outcomes == {Ok, Http503, Http504, Http404, ReadTimeout, SSLError}

\* ErrorHandler.__init__ defaults
DefaultRetryableErrors == {429, 500, 502, 503, 504}

ErrorHandler(rc, rd, eb, fs) ==
    [retry_count |-> rc, retry_delay |-> rd, exponential_backoff |-> eb,
     retryable_errors |-> DefaultRetryableErrors, fail_strategy |-> fs]

network_errors ==
    {<<"timeout">>, <<"connection", "error">>, <<"connection", "refused">>,
     <<"network", "is", "unreachable">>, <<"name", "or", "service", "not", "known">>}

\* a classification that takes every error for a transient one
always_retryable(h, error) == TRUE

_is_retryable_error(h, error) ==
    IF ResponseTruthy(error.response)
    THEN error.response.status_code \in h.retryable_errors
    ELSE \E net_error \in network_errors : Contains(lower(error.message), net_error)

\* 2 ** n
RECURSIVE Pow2(_)
Pow2(n) == IF n = 0 THEN 1 ELSE 2 * Pow2(n - 1)

\* the delay before jitter without the backoff
FlatDelay(h, retry_count) == h.retry_delay

\* the delay before jitter
BaseDelay(h, retry_count) ==
    IF h.exponential_backoff THEN Pow2(retry_count) * h.retry_delay ELSE h.retry_delay

\* jitter is in tenths (5..15 for random.uniform(0.5, 1.5)); the delay is in
\* tenths of a second
_calculate_delay(h, retry_count, jitter) == BaseDelay(h, retry_count) * jitter

_handle_failure(h, error) ==
    IF h.fail_strategy = "raise"
    THEN [ret |-> None, raised |-> TRUE]
    ELSE [ret |-> None, raised |-> FALSE]

\* the outcome of invocation i of a scripted operation: the script's last
\* outcome repeats
OutcomeAt(script, i) == IF i <= Len(script) THEN script[i] ELSE script[Len(script)]

\* the loop of ErrorHandler.retry's wrapper, from the state (retries, calls made,
\* delays slept so far); jitters[n] is the jitter drawn for retry n
RECURSIVE wrapperLoop(_, _, _, _, _, _)
wrapperLoop(h, script, jitters, retries, calls, delays) ==
    IF ~(retries <= h.retry_count)
    THEN [ret |-> None, raised |-> FALSE, calls |-> calls, delays |-> delays]
    ELSE LET o == OutcomeAt(script, calls + 1) IN
         IF o.kind = "return"
         THEN [ret |-> o.value, raised |-> FALSE, calls |-> calls + 1, delays |-> delays]
         ELSE IF _is_retryable_error(h, o)
              THEN IF retries + 1 > h.retry_count
                   THEN LET f == _handle_failure(h, o) IN
                        [ret |-> f.ret, raised |-> f.raised,
                         calls |-> calls + 1, delays |-> delays]
                   ELSE wrapperLoop(h, script, jitters, retries + 1, calls + 1,
                            Append(delays, _calculate_delay(h, retries + 1, jitters[retries + 1])))
              ELSE LET f == _handle_failure(h, o) IN
                   [ret |-> f.ret, raised |-> f.raised,
                    calls |-> calls + 1, delays |-> delays]

wrapper(h, script, jitters) == wrapperLoop(h, script, jitters, 0, 0, <<>>)

\* the jitter drawn for every retry when the delays do not matter
NoJitter == [n \in 1..(MaxRetryCount + 2) |-> 10]

\* ------------------------------------------------------------------ URLs
Url(netloc, path) ==
    [scheme |-> "https", netloc |-> netloc, path |-> path, fragment |-> ""]

NoUrl == [scheme |-> "", netloc |-> "", path |-> <<>>, fragment |-> ""]

\* the URL with #fragment
WithFragment(u, fragment) == [u EXCEPT !.fragment = fragment]

\* str(url)
UrlStr(u) ==
    <<u.scheme, "://", u.netloc>> \o u.path
        \o (IF u.fragment = "" THEN <<>> ELSE <<"#", u.fragment>>)

\* the configured target URL and exclude list
target_url == Url("example.com", <<"/", "docs", "/">>)

EXCLUDE_LIST == <<Url("example.com", <<"/", "docs", "/", "private">>)>>

PageA == Url("example.com", <<"/", "docs", "/", "a.html">>)
PageB == Url("example.com", <<"/", "docs", "/", "b.html">>)
PageC == Url("example.com", <<"/", "docs", "/", "sub", "/", "c.html">>)
PageD == Url("example.com", <<"/", "docs", "/", "sub", "/", "d.html">>)
PagePrivate == Url("example.com", <<"/", "docs", "/", "private", "/", "x.html">>)
PageBlog == Url("example.com", <<"/", "blog", "/">>)
PageDocs2 == Url("example.com", <<"/", "docs2", "/", "a.html">>)
PageOther == Url("other.org", <<"/", "docs", "/", "a.html">>)

PageATop == WithFragment(PageA, "top")

AssetImg == Url("example.com", <<"/", "docs", "/", "i.png">>)
AssetLogo == Url("Example.com", <<"/", "docs", "/", "logo.png">>)
AssetCss == Url("example.com", <<"/", "static", "/", "s.css">>)
AssetCdn == Url("cdn.org", <<"/", "docs", "/", "x.js">>)
AssetPrivate == Url("example.com", <<"/", "docs", "/", "private", "/", "p.png">>)

VARIABLE site            \* the site that the server serves

\* the site: for every page the <a href> and the img/link/script URLs of its
\* document, in document order, as urljoin(url, href) yields them
Document(links, assets) == [links |-> links, assets |-> assets]

\* the documents of the site with a shared page: /docs/ links a.html and
\* b.html, a.html links b.html, b.html links sub/c.html
SharedSite(u) ==
    CASE u = target_url -> Document(<<PageA, PageB>>, <<>>)
      [] u = PageA -> Document(<<PageB>>, <<>>)
      [] u = PageB -> Document(<<PageC>>, <<>>)
      [] OTHER -> Document(<<>>, <<>>)

\* the documents of the site with anchors: /docs/ links a.html and a.html#top
AnchorSite(u) ==
    CASE u = target_url -> Document(<<PageA, PageATop>>, <<>>)
      [] OTHER -> Document(<<>>, <<>>)

Sites == {"docs", "shared", "anchors"}

\* the server does not see the fragment of a URL
Site(u) ==
    IF site = "shared" THEN SharedSite(WithFragment(u, ""))
    ELSE IF site = "anchors" THEN AnchorSite(WithFragment(u, ""))
    ELSE
    CASE u = target_url ->
            Document(<<PageA, PagePrivate, PageB, PageOther, PageBlog>>,
                     <<AssetImg, AssetCss, AssetLogo, AssetPrivate>>)
      [] u = PageA -> Document(<<target_url, PageC, PageB, PageDocs2>>, <<AssetImg, AssetCdn>>)
      [] u = PageB -> Document(<<PageC>>, <<>>)
      [] u = PageC -> Document(<<PageD>>, <<AssetLogo>>)
      [] OTHER -> Document(<<>>, <<>>)

AllUrls ==
    {target_url, PageA, PageB, PageC, PageD, PagePrivate, PageBlog, PageDocs2, PageOther,
     PageATop}

\* CrawlSite.__init__: the target directory, with a trailing slash
target_directory ==
    IF EndsWithSlash(target_url.path) THEN target_url.path
    ELSE Append(target_url.path, "/")

\* CrawlSite.__init__: every exclude URL as scheme://netloc/path/
processed_exclude_list ==
    [i \in 1..Len(EXCLUDE_LIST) |->
        LET e == EXCLUDE_LIST[i]
            path == IF EndsWithSlash(e.path) THEN e.path ELSE Append(e.path, "/")
        IN  <<e.scheme, "://", e.netloc>> \o path]

_normalize_url(u) ==
    [scheme |-> LowerToken(u.scheme), netloc |-> LowerToken(u.netloc), path |-> u.path,
     fragment |-> ""]

\* every domain taken for the target's
any_domain(u) == TRUE

_is_same_domain(u) == target_url.netloc = u.netloc

_is_in_target_directory(u) ==
    LET url_path == IF EndsWithSlash(u.path) THEN u.path ELSE Append(u.path, "/")
    IN  StartsWith(url_path, target_directory)

\* the exclude entries compared for equality, not as prefixes
exact_exclude_match(u) ==
    \E i \in 1..Len(processed_exclude_list) : UrlStr(u) = processed_exclude_list[i]

_is_in_exclude_list(u) ==
    \E i \in 1..Len(processed_exclude_list) :
        StartsWith(UrlStr(u), processed_exclude_list[i])

\* the local file of a page: the URL path, index.html for a directory, below
\* output_dir
FilePath(u) ==
    LET p0 == IF u.path = <<>> THEN <<"/">> ELSE u.path
        p1 == IF EndsWithSlash(p0) THEN Append(p0, "index.html") ELSE p0
    IN  IF p1[1] = "/" THEN Tail(p1) ELSE p1

\* ------------------------------------------------------------------ freshness
\* timestamp_utils.should_update(remote_timestamp, local_timestamp); the remote
\* timestamp may be None (the retry wrapper's result when the HEAD request
\* failed): None == 0 is false, and None > local_timestamp is a TypeError
should_update(remote_timestamp, local_timestamp) ==
    IF remote_timestamp = Some(0) THEN "True"
    ELSE IF local_timestamp = 0 THEN "True"
    ELSE IF remote_timestamp = None THEN "TypeError"
    ELSE IF remote_timestamp[1] > local_timestamp THEN "True" ELSE "False"

\* what requests.head can do for a page: a reply (status, Last-Modified as a
\* timestamp, 0 when the header is missing), or an exception
HeadReply(status_code, last_modified) ==
    Return([status_code |-> status_code, last_modified |-> last_modified])

HeadOutcomes ==
    {HeadReply(200, 1), HeadReply(200, 3), HeadReply(200, 0), HeadReply(404, 0), ReadTimeout}

\* get_file_timestamp: 0 when the local file is absent, else its mtime
LocalTimestamps == {0, 2}

\* the handler of the @retry() decorator on get_remote_timestamp
DefaultHandler == ErrorHandler(3, 2, TRUE, "log")

\* the body of get_remote_timestamp on one outcome of requests.head
get_remote_timestamp_body(head) ==
    IF head.kind = "raise" THEN head
    ELSE LET response == head.value[1] IN
         IF response.status_code # 200 THEN Return(0)
         ELSE IF response.last_modified = 0 THEN Return(0)
         ELSE Return(response.last_modified)

get_remote_timestamp(head) ==
    wrapper(DefaultHandler, <<get_remote_timestamp_body(head)>>, NoJitter).ret

\* what the server does on the successive GETs of one page fetch
FetchScripts == {<<Ok>>, <<Http504, Ok>>, <<Http503, Ok>>, <<Http404>>, <<ReadTimeout>>}

\* the handler that CrawlSite builds from the ERROR_HANDLING configuration:
\* the defaults, and the configurations that set another fail_strategy
ConfigHandler == ErrorHandler(3, 2, TRUE, "log")

ConfigHandlers == {ErrorHandler(3, 2, TRUE, fs) : fs \in {"log", "raise"}}

\* _fetch_page_content: requests.get under the retry of the crawl's handler,
\* for each behaviour of the server
_fetch_page_content ==
    [h \in ConfigHandlers |->
        [script \in FetchScripts |-> wrapper(h, script, NoJitter)]]

\* get_remote_timestamp for each behaviour of the server
RemoteTimestamp == [head \in HeadOutcomes |-> get_remote_timestamp(head)]

\* ------------------------------------------------------------------ state
VARIABLES
    max_depth, max_files, threads, force_download,   \* the configuration of the run
    error_handler,        \* CrawlSite.error_handler
    downloaded_files,     \* CrawlSite.downloaded_files
    visited_urls,         \* CrawlSite.visited_urls
    queue,                \* CrawlSite.queue (LifoQueue): the tasks, last put last
    unfinished_tasks,     \* queue.unfinished_tasks, which queue.join() waits on
    discovered,           \* url -> the depth of the first task put for it, -1 for none (this run)
    pages,                \* CrawlSite.pages: url -> content
    page_depths,          \* CrawlSite.page_depths: url -> depth
    static_resources,     \* CrawlSite.static_resources
    state,                \* CrawlSite.state_manager.state
    state_file,           \* the state file on disk: None, or the saved document
    stop_event,           \* stop_event.is_set()
    main,                 \* where crawl_site() is
    started,              \* worker threads started so far
    pc,                   \* where each worker thread is
    task,                 \* the (url, depth) a worker has dequeued
    need_download,        \* _crawl_page's need_download, per worker
    child_urls,           \* _crawl_page's child URLs still to be put, per worker
    checkpoints,          \* how often save_interval has passed in this run
    marks,                \* url -> how often a _crawl_page marked it visited (this run)
    stores,               \* url -> how often a _crawl_page wrote pages[url] (this run)
    requested,            \* the URLs the crawler sent a HEAD or GET for (this run)
    failed_fetches,       \* the URLs whose page fetch yielded no content (this run)
    plugin_manager,       \* the plugin manager of the crawl, None without enabled plugins
    hooks,                \* url -> the on_page_crawled calls made for it (this run)
    order,                \* the tasks taken from the queue in turn and the pages whose
                          \* links were extracted (this run), NoLog where not recorded
    call,                 \* a retry-wrapped call under test: its inputs and result
    now,                  \* time.time(), in ticks of 0.5 s
    delay_manager,        \* the GlobalDelayManager singleton: delay, random_delay,
                          \* last_request_time
    lock_owner,           \* the thread that holds delay_manager.lock, or 0
    role,                 \* what each pacing thread is: a crawl or a download worker
    tpc,                  \* where each pacing thread is
    wake,                 \* when the time.sleep of a pacing thread ends
    release_times,        \* the times of the last two returns of wait()
    request_times,        \* the times of the last two outbound requests
    disk,                 \* the state file a StateManager under test is given
    state_manager,              \* that StateManager: its state, whether __init__ raised
    spc,                  \* where each thread calling the StateManager is
    sreg,                 \* the field, argument and value that call works with
    added,                \* the arguments of the add calls that have returned
    snapshot,             \* the state the document on disk was saved from
    reloaded,             \* a second StateManager constructed over the file
    downloader,           \* a Downloader: threads, queue, its unfinished_tasks,
                          \* results, and the downloaded_files of its state_manager
    dworker,              \* where each DownloaderWorker is, its url and result
    drun,                 \* where Downloader.run() is
    origin,               \* what the server answers: the HEAD reply, the URLs
                          \* whose GET times out
    local_files,          \* the files in output_dir
    dlog,                 \* the tasks added, the skips, the GETs sent, what run() returned
    js_config,            \* js_rendering_enabled, PYPPETEER_AVAILABLE
    _js_renderer,         \* the global of js_renderer.py: 0 (None), or a JSRendererThread
    renderers,            \* the JSRendererThread objects created, with their threads
    fpc,                  \* where each crawl worker is in _fetch_page_content
    flocal,               \* its url, js_renderer, task_id, page_content, time waited
    rlog,                 \* the render tasks submitted and started, the GETs sent
    delay_config,         \* DELAY and RANDOM_DELAY of config.py
    instances,            \* the GlobalDelayManager objects created in the process
    _instance,            \* GlobalDelayManager._instance: 0 (None), or one of them
    built                 \* the Downloaders constructed: the delay_manager each
                          \* holds and the delays its wait() calls have drawn

config_vars ==
    <<max_depth, max_files, threads, force_download, error_handler, plugin_manager, site>>

crawl_state ==
    <<downloaded_files, visited_urls, pages, page_depths, static_resources, state,
      state_file, checkpoints, marks, stores, requested, failed_fetches, hooks>>

shared_vars == <<crawl_state, order>>

queue_vars == <<queue, unfinished_tasks, discovered>>

main_vars == <<main, started, stop_event>>

local_vars == <<pc, task, need_download, child_urls>>

delay_vars ==
    <<now, delay_manager, lock_owner, role, tpc, wake, release_times, request_times>>

store_vars == <<disk, state_manager, spc, sreg, added, snapshot, reloaded>>

batch_vars == <<downloader, dworker, drun, origin, local_files, dlog>>

render_vars == <<js_config, _js_renderer, renderers, fpc, flocal, rlog>>

governor_vars == <<delay_config, instances, _instance, built>>

vars ==
    <<config_vars, shared_vars, queue_vars, main_vars, local_vars, call, delay_vars,
      store_vars, batch_vars, render_vars, governor_vars>>

Workers == 1..MaxThreads

\* DELAY of the configuration: 1 second, in ticks
DELAY == 2

\* the time at which the first request is made: long after the epoch
StartTime == 2 * DELAY

GlobalDelayManager(delay, random_delay) ==
    [delay |-> delay, random_delay |-> random_delay, last_request_time |-> 0]

\* the pacing of requests, for a given state_manager and given thread roles
Pacing(manager, roles) ==
    /\ now = StartTime
    /\ delay_manager = manager
    /\ lock_owner = 0
    /\ role = roles
    /\ tpc = [t \in Workers |-> "idle"]
    /\ wake = [t \in Workers |-> 0]
    /\ release_times = <<>>
    /\ request_times = <<>>

\* no request is being paced
NoPacing == Pacing(GlobalDelayManager(DELAY, TRUE), [t \in Workers |-> "none"])

\* the defaults of GlobalDelayManager.__new__ and __init__: delay 1.0 second,
\* in ticks
DefaultDelay == 2

\* the process once utils.rate_limiter is imported, which downloader.py does
\* before a Downloader exists: default_delay_manager = GlobalDelayManager()
\* is the instance of the class
Governor(configured) ==
    /\ delay_config = configured
    /\ instances = <<GlobalDelayManager(DefaultDelay, TRUE)>>
    /\ _instance = 1
    /\ built = <<>>

\* no Downloader is constructed
NoGovernor == Governor([DELAY |-> DELAY, RANDOM_DELAY |-> TRUE])

EmptyMap == <<>>

NoTask == [url |-> NoUrl, depth |-> 0]

NoCall == [status |-> "none"]

\* StateManager.__init__ before load_state, at a given time.time()
InitialState(start_time) ==
    [visited_urls |-> {}, downloaded_files |-> {}, start_time |-> start_time,
     stats |-> [total_urls |-> 0, downloaded_files |-> 0, failed_urls |-> 0]]

FreshState == InitialState(0)

\* JSON values as json.dump writes and json.load reads them
JsonNumber(value) == [json |-> "number", value |-> value]

JsonArray(items) == [json |-> "array", items |-> items]

JsonObject(members) == [json |-> "object", members |-> members]

\* list(a_set): the elements in some order
RECURSIVE list(_)
list(elements) ==
    IF elements = {} THEN <<>>
    ELSE LET x == CHOOSE x \in elements : TRUE IN <<x>> \o list(elements \ {x})

\* a set() that keeps the first element only
first_only(items) == IF items = <<>> THEN {} ELSE {items[1]}

\* set(a_list)
as_set(items) == {items[i] : i \in 1..Len(items)}

\* json.load of an object of numbers: a dict of ints
dict(value) == [k \in DOMAIN value.members |-> value.members[k].value]

\* a file whose bytes are not UTF-8
Undecodable == Some([undecodable |-> TRUE])

\* the state file after open(self.state_file, 'w') and before json.dump has
\* written all of the document: empty or cut short, not a JSON document
Torn == Some([partial |-> TRUE])

\* one `if key in loaded_state` of load_state, for a set-typed field: set()
\* of a number raises TypeError, which load_state does not catch
load_set(loading, members, key) ==
    IF loading.raised \/ key \notin DOMAIN members THEN loading
    ELSE IF members[key].json = "array"
         THEN [loading EXCEPT !.state[key] = as_set(members[key].items)]
         ELSE [loading EXCEPT !.raised = TRUE]

\* one `if key in loaded_state` of load_state, for start_time and stats: the
\* value is taken as it is
load_value(loading, members, key, value) ==
    IF loading.raised \/ key \notin DOMAIN members THEN loading
    ELSE [loading EXCEPT !.state[key] = value]

\* StateManager.load_state over the file on disk, st being the state of
\* __init__: the state it leaves, and whether it raised. No file, and a
\* file json.load cannot parse (logged), leave the state as constructed; a
\* UnicodeDecodeError of the read and a TypeError of `in` or set() are not
\* among the exceptions caught
load_state_body(st, file) ==
    LET loading == [state |-> st, raised |-> FALSE] IN
    IF file = None \/ file = Torn THEN loading
    ELSE IF file = Undecodable THEN [loading EXCEPT !.raised = TRUE]
    ELSE LET loaded_state == file[1] IN
         IF loaded_state.json = "number" THEN [loading EXCEPT !.raised = TRUE]
         ELSE IF loaded_state.json = "array" THEN loading
         ELSE LET m == loaded_state.members
                  visited == load_set(loading, m, "visited_urls")
                  downloaded == load_set(visited, m, "downloaded_files")
                  started_at ==
                      load_value(downloaded, m, "start_time",
                                 IF m.start_time.json = "number" THEN m.start_time.value
                                 ELSE m.start_time)
              IN  load_value(started_at, m, "stats",
                             IF m.stats.json = "object" THEN dict(m.stats) ELSE m.stats)

\* the state a StateManager constructed over the file starts with
load_state(file) == load_state_body(FreshState, file).state

\* the document StateManager.save_state writes
SavedDocument(st) ==
    Some(JsonObject(
        [visited_urls |-> JsonArray(list(st.visited_urls)),
         downloaded_files |-> JsonArray(list(st.downloaded_files)),
         start_time |-> JsonNumber(st.start_time),
         stats |-> JsonObject([k \in DOMAIN st.stats |-> JsonNumber(st.stats[k])])]))

\* save_state from call to return: the file it leaves on disk. makedirs or
\* open fails and the file is as before, or the file is truncated and the
\* write fails part-way, or the document is written
save_state(st, file) == {file, Torn, SavedDocument(st)}

add_visited_url(st, url) ==
    LET v == st.visited_urls \cup {url} IN
    [st EXCEPT !.visited_urls = v, !.stats.total_urls = Cardinality(v)]

add_downloaded_file(st, file_path) ==
    LET d == st.downloaded_files \cup {file_path} IN
    [st EXCEPT !.downloaded_files = d, !.stats.downloaded_files = Cardinality(d)]

NoManager == [status |-> "none", file |-> None, state |-> FreshState]

NoRegister == [field |-> "", item |-> NoUrl, len |-> 0]

\* StateManager(state_file) at a given time: __init__ and its load_state
StateManager(start_time, file) ==
    LET loading == load_state_body(InitialState(start_time), file) IN
    [status |-> IF loading.raised THEN "raised" ELSE "ok", file |-> file,
     state |-> loading.state]

\* a state file and no StateManager over it yet
Store(file) ==
    /\ disk = file
    /\ state_manager = NoManager
    /\ spc = [t \in Workers |-> "idle"]
    /\ sreg = [t \in Workers |-> NoRegister]
    /\ added = [visited_urls |-> {}, downloaded_files |-> {}]
    /\ snapshot = None
    /\ reloaded = NoManager

\* no StateManager is under test
NoStore == Store(None)

\* Downloader(output_dir, threads, state_manager) after the add_task calls,
\* with the files of output_dir and the server's answers
Batch(workers, tasks, recorded, files, head, down) ==
    /\ downloader = [threads |-> workers, queue |-> tasks, unfinished_tasks |-> Len(tasks),
                     results |-> <<>>, downloaded_files |-> recorded]
    /\ dworker = [t \in Workers |-> [pc |-> "unstarted", url |-> NoUrl, result |-> None,
                                     raised |-> FALSE]]
    /\ drun = "constructed"
    /\ origin = [head |-> head, down |-> down]
    /\ local_files = files
    /\ dlog = [tasks |-> tasks, skips |-> {}, sent |-> {}, returned |-> <<>>]

\* no Downloader is under test
NoBatch == Batch(1, <<>>, {}, {}, HeadReply(200, 3), {})

NoFetch == [url |-> NoUrl, js_renderer |-> 0, task_id |-> 0, waited |-> 0,
            page_content |-> None, how |-> ""]

\* a process that has not rendered a page yet
Render(enabled, available) ==
    /\ js_config = [js_rendering_enabled |-> enabled, PYPPETEER_AVAILABLE |-> available]
    /\ _js_renderer = 0
    /\ renderers = <<>>
    /\ fpc = [t \in Workers |-> "idle"]
    /\ flocal = [t \in Workers |-> NoFetch]
    /\ rlog = [submitted |-> <<>>, started |-> <<>>, gets |-> {}]

\* no page is fetched with rendering
NoRender == Render(FALSE, FALSE)

\* the record of a run's traversal, where it is kept
NoLog == [dequeued |-> <<>>, scanned |-> {}, kept |-> FALSE]

EmptyLog == [dequeued |-> <<>>, scanned |-> {}, kept |-> TRUE]

\* queue.get() returned t
dequeued(log, t) ==
    IF log.kept THEN [log EXCEPT !.dequeued = Append(@, t)] ELSE log

\* the links of the page at url were extracted
extracted(log, url) ==
    IF log.kept THEN [log EXCEPT !.scanned = @ \cup {url}] ELSE log

\* the state after CrawlSite.__init__ on a machine with no state file
Constructed(depth, files, workers, force, handler) ==
    /\ max_depth = depth
    /\ max_files = files
    /\ threads = workers
    /\ force_download = force
    /\ error_handler = handler
    /\ downloaded_files = 0
    /\ visited_urls = {}
    /\ queue = <<>>
    /\ discovered = [u \in AllUrls |-> -1]
    /\ unfinished_tasks = 0
    /\ pages = EmptyMap
    /\ page_depths = EmptyMap
    /\ static_resources = {}
    /\ state = FreshState
    /\ state_file = None
    /\ stop_event = FALSE
    /\ main = "constructed"
    /\ started = 0
    /\ pc = [w \in Workers |-> "idle"]
    /\ task = [w \in Workers |-> NoTask]
    /\ need_download = [w \in Workers |-> FALSE]
    /\ child_urls = [w \in Workers |-> <<>>]
    /\ checkpoints = 0
    /\ marks = [u \in AllUrls |-> 0]
    /\ stores = [u \in AllUrls |-> 0]
    /\ requested = {}
    /\ failed_fetches = {}
    /\ hooks = [u \in AllUrls |-> <<>>]

Init ==
    /\ \E depth \in 0..MaxDepthCfg, files \in 0..MaxFilesCfg, workers \in 1..MaxThreads,
          force \in BOOLEAN, handler \in ConfigHandlers :
          Constructed(depth, files, workers, force, handler)
    /\ plugin_manager = None
    /\ site = "docs"
    /\ order = NoLog
    /\ call = NoCall
    /\ NoPacing
    /\ NoStore
    /\ NoBatch
    /\ NoRender
    /\ NoGovernor

\* ------------------------------------------------------------------ crawl_site()
Put(t) ==
    /\ queue' = Append(queue, t)
    /\ unfinished_tasks' = unfinished_tasks + 1
    /\ discovered' = IF discovered[t.url] = -1
                     THEN [discovered EXCEPT ![t.url] = t.depth] ELSE discovered

\* crawl_site: the initial task
StartCrawl ==
    /\ main = "constructed"
    /\ IF target_url \notin visited_urls
       THEN Put([url |-> target_url, depth |-> 0])
       ELSE UNCHANGED queue_vars
    /\ main' = "spawn"
    /\ UNCHANGED <<config_vars, shared_vars, started, stop_event, local_vars, call, delay_vars, store_vars, batch_vars, render_vars, governor_vars>>

\* crawl_site: worker.start(), one thread after the other
StartWorker ==
    /\ main = "spawn"
    /\ started < threads
    /\ started' = started + 1
    /\ pc' = [pc EXCEPT ![started + 1] = "top"]
    /\ main' = IF started + 1 = threads THEN "join" ELSE "spawn"
    /\ UNCHANGED <<config_vars, shared_vars, queue_vars, stop_event, task,
                   need_download, child_urls, call, delay_vars, store_vars, batch_vars, render_vars, governor_vars>>

\* crawl_site: queue.join() returns
QueueJoin ==
    /\ main = "join"
    /\ unfinished_tasks = 0
    /\ main' = "joinworkers"
    /\ UNCHANGED <<config_vars, shared_vars, queue_vars, started, stop_event,
                   local_vars, call, delay_vars, store_vars, batch_vars, render_vars, governor_vars>>

\* crawl_site: worker.join(timeout=60) of every worker; after queue.join() a
\* worker is at most one 0.5 s get away from its exit
JoinWorkers ==
    /\ main = "joinworkers"
    /\ \A w \in 1..started : pc[w] = "exited"
    /\ main' = "save"
    /\ UNCHANGED <<config_vars, shared_vars, queue_vars, started, stop_event,
                   local_vars, call, delay_vars, store_vars, batch_vars, render_vars, governor_vars>>

\* crawl_site: the final save_state() up to open(self.state_file, 'w'), which
\* truncates the file; when makedirs or open fails the error is logged, the
\* file is as before and crawl_site returns
OpenStateFile ==
    /\ main = "save"
    /\ \E opened \in BOOLEAN :
          /\ state_file' = IF opened THEN Torn ELSE state_file
          /\ main' = IF opened THEN "write" ELSE "returned"
    /\ UNCHANGED <<config_vars, downloaded_files, visited_urls, pages, page_depths,
                   static_resources, state, checkpoints, marks, stores, requested, failed_fetches, hooks, order,
                   queue_vars, started, stop_event, local_vars, call, delay_vars, store_vars, batch_vars, render_vars, governor_vars>>

\* crawl_site: json.dump into the opened file, which may fail part-way
\* (logged), and the return
SaveFinalState ==
    /\ main = "write"
    /\ \E saved \in BOOLEAN :
          state_file' = IF saved THEN SavedDocument(state) ELSE state_file
    /\ main' = "returned"
    /\ UNCHANGED <<config_vars, downloaded_files, visited_urls, pages, page_depths,
                   static_resources, state, checkpoints, marks, stores, requested, failed_fetches, hooks, order,
                   queue_vars, started, stop_event, local_vars, call, delay_vars, store_vars, batch_vars, render_vars, governor_vars>>

\* stop_event.set() of the caller, at any moment of a crawl
SetStop ==
    /\ main # "returned"
    /\ ~stop_event
    /\ stop_event' = TRUE
    /\ UNCHANGED <<config_vars, shared_vars, queue_vars, main, started, local_vars, call, delay_vars, store_vars, batch_vars, render_vars, governor_vars>>

\* a crawl that returned without a stop signal, under the file limit and with
\* its final state saved
Completed ==
    /\ main = "returned"
    /\ ~stop_event
    /\ downloaded_files < max_files
    /\ state_file = SavedDocument(state)

\* the next crawl after a completed one, with its state file on disk:
\* CrawlSite.__init__ removes the state file (os.remove may fail, which is
\* logged), and the new StateManager loads what is left of it
Restart ==
    /\ Completed
    /\ \E removed \in BOOLEAN :
          LET file == IF removed THEN None ELSE state_file IN
          /\ state_file' = file
          /\ state' = load_state(file)
          /\ visited_urls' = IF force_download THEN {} ELSE load_state(file).visited_urls
    /\ downloaded_files' = 0
    /\ queue' = <<>>
    /\ discovered' = [u \in AllUrls |-> -1]
    /\ unfinished_tasks' = 0
    /\ pages' = EmptyMap
    /\ page_depths' = EmptyMap
    /\ static_resources' = {}
    /\ main' = "constructed"
    /\ started' = 0
    /\ pc' = [w \in Workers |-> "idle"]
    /\ task' = [w \in Workers |-> NoTask]
    /\ need_download' = [w \in Workers |-> FALSE]
    /\ child_urls' = [w \in Workers |-> <<>>]
    /\ checkpoints' = 0
    /\ marks' = [u \in AllUrls |-> 0]
    /\ stores' = [u \in AllUrls |-> 0]
    /\ requested' = {}
    /\ failed_fetches' = {}
    /\ hooks' = [u \in AllUrls |-> <<>>]
    /\ order' = IF order = NoLog THEN NoLog ELSE EmptyLog
    /\ UNCHANGED <<config_vars, stop_event, call, delay_vars, store_vars, batch_vars, render_vars, governor_vars>>

\* ------------------------------------------------------------------ _worker
\* the file limit test, always made under the lock
reached_limit == downloaded_files >= max_files

\* a store with no second test of the limit
limit_not_rechecked == FALSE

\* _crawl_page: the file limit tested again, under the lock that stores the page
limit_at_store == downloaded_files >= max_files

\* a mark with no test
never_visited(url) == FALSE

\* the visited test of _crawl_page's test-and-mark
already_visited(url) == url \in visited_urls

\* children put on the queue from a page at max_depth too
up_to_max_depth(depth) == depth <= max_depth

\* _crawl_page: children are put on the queue only from a page below max_depth
below_max_depth(depth) == depth < max_depth

\* queue.task_done() in the worker's finally, and the worker's next place
FinishTask(w, next) ==
    /\ unfinished_tasks' = unfinished_tasks - 1
    /\ pc' = [pc EXCEPT ![w] = next]
    /\ task' = [task EXCEPT ![w] = NoTask]
    /\ need_download' = [need_download EXCEPT ![w] = FALSE]
    /\ child_urls' = [child_urls EXCEPT ![w] = <<>>]

Goto(w, next) ==
    /\ pc' = [pc EXCEPT ![w] = next]
    /\ UNCHANGED <<unfinished_tasks, task, need_download, child_urls>>

\* a worker that leaves its loop at the limit as it does at the stop signal
exit_at_limit == IF stop_event \/ reached_limit THEN "exited" ELSE "get"

\* where the top of the loop leads: out at the stop signal, to the
\* non-blocking get at the limit, else to the blocking get
after_top == IF stop_event THEN "exited" ELSE IF reached_limit THEN "drain" ELSE "get"

\* the top of the loop: the stop signal, then the file limit under the lock
WorkerTop(w) ==
    /\ pc[w] = "top"
    /\ Goto(w, after_top)
    /\ UNCHANGED <<config_vars, shared_vars, main_vars, queue, discovered, call, delay_vars, store_vars, batch_vars, render_vars, governor_vars>>

\* the limit is reached: queue.get(block=False) and task_done(), or Empty
WorkerDrain(w) ==
    /\ pc[w] = "drain"
    /\ IF queue # <<>>
       THEN /\ queue' = SubSeq(queue, 1, Len(queue) - 1)
            /\ order' = dequeued(order, queue[Len(queue)])
            /\ FinishTask(w, "top")
       ELSE /\ Goto(w, "exited")
            /\ UNCHANGED <<queue, order>>
    /\ UNCHANGED <<config_vars, crawl_state, main_vars, discovered, call, delay_vars, store_vars, batch_vars, render_vars, governor_vars>>

\* queue.get(block=True, timeout=0.5): the last task put, or Empty when the
\* queue stayed empty for the timeout
WorkerGet(w) ==
    /\ pc[w] = "get"
    /\ IF queue # <<>>
       THEN /\ queue' = SubSeq(queue, 1, Len(queue) - 1)
            /\ task' = [task EXCEPT ![w] = queue[Len(queue)]]
            /\ order' = dequeued(order, queue[Len(queue)])
            /\ pc' = [pc EXCEPT ![w] = "check"]
            /\ UNCHANGED <<unfinished_tasks, need_download, child_urls>>
       ELSE /\ Goto(w, "exited")
            /\ UNCHANGED <<queue, order>>
    /\ UNCHANGED <<config_vars, crawl_state, main_vars, discovered, call, delay_vars, store_vars, batch_vars, render_vars, governor_vars>>

\* the stop signal again, then visited (under the lock), exclude list, directory
WorkerCheck(w) ==
    /\ pc[w] = "check"
    /\ LET url == task[w].url IN
       IF stop_event
       THEN FinishTask(w, "exited")
       ELSE IF \/ url \in visited_urls
               \/ _is_in_exclude_list(url)
               \/ ~_is_in_target_directory(url)
            THEN FinishTask(w, "top")
            ELSE Goto(w, "limit")
    /\ UNCHANGED <<config_vars, shared_vars, main_vars, queue, discovered, call, delay_vars, store_vars, batch_vars, render_vars, governor_vars>>

\* the file limit once more, under the lock, before _crawl_page
WorkerLimit(w) ==
    /\ pc[w] = "limit"
    /\ IF reached_limit
       THEN FinishTask(w, "top")
       ELSE Goto(w, "crawl")
    /\ UNCHANGED <<config_vars, shared_vars, main_vars, queue, discovered, call, delay_vars, store_vars, batch_vars, render_vars, governor_vars>>

\* ------------------------------------------------------------------ _crawl_page
\* self.visited_urls.add(url)
visited_replace(visited, url) == {url}

visited_add(visited, url) == visited \cup {url}

\* the depth limit, then test-and-mark of visited_urls under the lock
CrawlMark(w) ==
    /\ pc[w] = "crawl"
    /\ LET url == task[w].url
           depth == task[w].depth
       IN  IF depth > max_depth \/ already_visited(url)
           THEN /\ FinishTask(w, "top")
                /\ UNCHANGED <<visited_urls, state, marks>>
           ELSE /\ visited_urls' = visited_add(visited_urls, url)
                /\ state' = add_visited_url(state, url)
                /\ marks' = [marks EXCEPT ![url] = @ + 1]
                /\ Goto(w, "fresh")
    /\ UNCHANGED <<config_vars, downloaded_files, pages, page_depths, static_resources,
                   state_file, checkpoints, stores, requested, failed_fetches, hooks, order, main_vars, queue, discovered, call, delay_vars, store_vars, batch_vars, render_vars, governor_vars>>

\* the freshness test (local mtime, HEAD request), then the file limit under
\* the lock when the page needs download
CrawlFreshness(w) ==
    /\ pc[w] = "fresh"
    /\ requested' = requested \cup {task[w].url}
    /\ \E local_timestamp \in LocalTimestamps, head \in HeadOutcomes :
          LET remote_timestamp == RemoteTimestamp[head]
              update == should_update(remote_timestamp, local_timestamp)
              need == update = "True" \/ force_download
          IN  IF update = "TypeError"
              THEN Goto(w, "except")
              ELSE IF need /\ reached_limit
                   THEN FinishTask(w, "top")
                   ELSE /\ pc' = [pc EXCEPT ![w] = "fetch"]
                        /\ need_download' = [need_download EXCEPT ![w] = need]
                        /\ UNCHANGED <<unfinished_tasks, task, child_urls>>
    /\ UNCHANGED <<config_vars, downloaded_files, visited_urls, pages, page_depths,
                   static_resources, state, state_file, checkpoints, marks, stores,
                   failed_fetches, hooks, order, main_vars, queue, discovered, call, delay_vars, store_vars, batch_vars, render_vars, governor_vars>>

\* a store that records no depth for the page
depth_forgotten(depths, url, depth) == depths

\* _crawl_page: self.page_depths[url] = depth
record_depth(depths, url, depth) == (url :> depth) @@ depths

\* a page is stored whether or not it needs download
store_always(need) == TRUE

\* _crawl_page: `if need_download` around the store
store_wanted(need) == need

\* a page is stored whatever the fetch gave
content_unchecked(page_content) == FALSE

\* _crawl_page: `if not page_content`
no_content(page_content) == page_content = None

\* _fetch_page_content, which raises under fail_strategy 'raise'; then the
\* page is stored under the lock if it needs download and the limit is not
\* reached
\* _crawl_page calls the hook for every page whose content it has, whether or
\* not the page is then stored
hook_when_stored(need) == need

hook_called(need) == TRUE

\* plugin_manager.call_hook("on_page_crawled", url, page_content): the call is
\* recorded with the number of times the page was stored before it
on_page_crawled(log, url, page_content, stored) ==
    [log EXCEPT ![url] = Append(@, [content |-> page_content, stored |-> stored])]

CrawlFetch(w) ==
    /\ pc[w] = "fetch"
    /\ \E script \in FetchScripts :
          LET fetched == _fetch_page_content[error_handler][script]
              page_content == fetched.ret
              url == task[w].url
              succeeded == ~fetched.raised /\ ~no_content(page_content)
          IN  /\ failed_fetches' =
                    IF fetched.raised \/ page_content = None
                    THEN failed_fetches \cup {url} ELSE failed_fetches
              /\ hooks' =
                    IF succeeded /\ plugin_manager # None /\ hook_called(need_download[w])
                    THEN on_page_crawled(hooks, url, page_content, stores[url])
                    ELSE hooks
              /\ IF fetched.raised
                 THEN /\ Goto(w, "except")
                      /\ UNCHANGED <<pages, page_depths, downloaded_files, state, stores>>
                 ELSE IF no_content(page_content)
                 THEN /\ FinishTask(w, "top")
                      /\ UNCHANGED <<pages, page_depths, downloaded_files, state, stores>>
                 ELSE IF ~store_wanted(need_download[w])
                 THEN /\ Goto(w, "scan")
                      /\ UNCHANGED <<pages, page_depths, downloaded_files, state, stores>>
                 ELSE IF limit_at_store
                 THEN /\ FinishTask(w, "top")
                      /\ UNCHANGED <<pages, page_depths, downloaded_files, state, stores>>
                 ELSE /\ pages' = (url :> page_content) @@ pages
                      /\ page_depths' = record_depth(page_depths, url, task[w].depth)
                      /\ downloaded_files' = downloaded_files + 1
                      /\ state' = add_downloaded_file(state, FilePath(url))
                      /\ stores' = [stores EXCEPT ![url] = @ + 1]
                      /\ Goto(w, "scan")
    /\ UNCHANGED <<config_vars, visited_urls, static_resources, state_file, order,
                   checkpoints, marks, requested, main_vars, queue, discovered, call, delay_vars, store_vars, batch_vars, render_vars, governor_vars>>

RECURSIVE Reverse(_)
Reverse(s) == IF s = <<>> THEN <<>> ELSE Append(Reverse(Tail(s)), Head(s))

\* the child links pushed in document order
not_reversed(links) == links

\* reversed(child_urls)
reversed(links) == Reverse(links)

\* the elements of s that are in set, in order
RECURSIVE SelectSeqIn(_, _)
SelectSeqIn(s, set) ==
    IF s = <<>> THEN <<>>
    ELSE IF Head(s) \in set THEN <<Head(s)>> \o SelectSeqIn(Tail(s), set)
    ELSE SelectSeqIn(Tail(s), set)

\* the checkpoint when save_interval has passed, the static resources of the
\* page, and its child links that are not visited yet (reversed, for the LIFO
\* queue)
CrawlScan(w) ==
    /\ pc[w] = "scan"
    /\ LET url == task[w].url
           depth == task[w].depth
           doc == Site(url)
           resources ==
               {r \in {_normalize_url(doc.assets[i]) : i \in 1..Len(doc.assets)} :
                   _is_same_domain(r) /\ _is_in_target_directory(r)}
           wanted ==
               {c \in AllUrls :
                   /\ _is_same_domain(c)
                   /\ _is_in_target_directory(c)
                   /\ below_max_depth(depth)
                   /\ c \notin visited_urls}
       IN  /\ static_resources' = static_resources \cup resources
           /\ child_urls' = [child_urls EXCEPT ![w] = reversed(SelectSeqIn(doc.links, wanted))]
           /\ order' = extracted(order, url)
    /\ \E should_save \in {FALSE, checkpoints < MaxCheckpoints} :
          /\ state_file' \in IF should_save THEN save_state(state, state_file)
                             ELSE {state_file}
          /\ checkpoints' = IF should_save THEN checkpoints + 1 ELSE checkpoints
    /\ pc' = [pc EXCEPT ![w] = "putcheck"]
    /\ UNCHANGED <<config_vars, downloaded_files, visited_urls, pages, page_depths,
                   state, marks, stores, requested, failed_fetches, hooks, main_vars, queue_vars,
                   task, need_download, call, delay_vars, store_vars, batch_vars, render_vars, governor_vars>>

\* the loop over the reversed child links: the file limit under the lock
\* before every put; after the loop _add_delay() and the return
CrawlPutCheck(w) ==
    /\ pc[w] = "putcheck"
    /\ IF child_urls[w] = <<>> \/ reached_limit
       THEN FinishTask(w, "top")
       ELSE Goto(w, "put")
    /\ UNCHANGED <<config_vars, shared_vars, main_vars, queue, discovered, call, delay_vars, store_vars, batch_vars, render_vars, governor_vars>>

\* queue.put((full_url, depth + 1))
CrawlPut(w) ==
    /\ pc[w] = "put"
    /\ Put([url |-> Head(child_urls[w]), depth |-> task[w].depth + 1])
    /\ child_urls' = [child_urls EXCEPT ![w] = Tail(@)]
    /\ pc' = [pc EXCEPT ![w] = "putcheck"]
    /\ UNCHANGED <<config_vars, shared_vars, main_vars, task, need_download, call, delay_vars, store_vars, batch_vars, render_vars, governor_vars>>

\* an exception that leaves the worker thread, the task never marked done
uncaught(w) ==
    /\ pc[w] = "except"
    /\ Goto(w, "exited")
    /\ UNCHANGED <<config_vars, shared_vars, main_vars, queue, discovered, call, delay_vars, store_vars, batch_vars, render_vars, governor_vars>>

\* an exception raised by _crawl_page: the except clauses log it, the finally
\* marks the task done, and the loop goes on
WorkerExcept(w) ==
    /\ pc[w] = "except"
    /\ FinishTask(w, "top")
    /\ UNCHANGED <<config_vars, shared_vars, main_vars, queue, discovered, call, delay_vars, store_vars, batch_vars, render_vars, governor_vars>>

WorkerStep(w) ==
    \/ WorkerTop(w)
    \/ WorkerDrain(w)
    \/ WorkerGet(w)
    \/ WorkerCheck(w)
    \/ WorkerLimit(w)
    \/ CrawlMark(w)
    \/ CrawlFreshness(w)
    \/ CrawlFetch(w)
    \/ CrawlScan(w)
    \/ CrawlPutCheck(w)
    \/ CrawlPut(w)
    \/ WorkerExcept(w)

MainStep ==
    \/ StartCrawl
    \/ StartWorker
    \/ QueueJoin
    \/ JoinWorkers
    \/ OpenStateFile
    \/ SaveFinalState

Next ==
    \/ MainStep
    \/ \E w \in Workers : WorkerStep(w)
    \/ SetStop
    \/ Restart

Spec == Init /\ [][Next]_vars

\* every thread that can take a step takes one: the main thread and the
\* started workers are threads of the operating system
Fairness ==
    /\ WF_vars(MainStep)
    /\ \A w \in Workers : WF_vars(WorkerStep(w))

\* crawls under the error handling of the default configuration and without
\* --force: force_download does no more than make need_download true,
\* and fail_strategy "raise" no more than send a worker to its except
\* clause, both of which the freshness test does in these crawls as well
FairInit == Init /\ ~force_download /\ error_handler = ConfigHandler

FairSpec == FairInit /\ [][Next]_vars /\ Fairness

\* grab_the_site.main passes the PluginManager when plugins are enabled
PluginManager == Some("enabled_plugins")

\* a crawler constructed with enabled plugins
HooksInit ==
    /\ \E depth \in 0..MaxDepthCfg, files \in 0..MaxFilesCfg, workers \in 1..MaxThreads,
          force \in BOOLEAN, handler \in ConfigHandlers :
          Constructed(depth, files, workers, force, handler)
    /\ plugin_manager = PluginManager
    /\ site = "docs"
    /\ order = NoLog
    /\ call = NoCall
    /\ NoPacing
    /\ NoStore
    /\ NoBatch
    /\ NoRender
    /\ NoGovernor

SpecHooks == HooksInit /\ [][Next]_vars

\* a max_files that no site of the model reaches
AmpleFiles == 5

\* a crawler constructed for one of the small sites
SitesInit ==
    /\ \E depth \in 0..MaxDepthCfg, files \in {1, AmpleFiles}, workers \in 1..MaxThreads,
          force \in BOOLEAN, handler \in ConfigHandlers :
          Constructed(depth, files, workers, force, handler)
    /\ plugin_manager = None
    /\ site \in Sites \ {"docs"}
    /\ order = NoLog
    /\ call = NoCall
    /\ NoPacing
    /\ NoStore
    /\ NoBatch
    /\ NoRender
    /\ NoGovernor

SpecSites == SitesInit /\ [][Next]_vars

\* a crawler with one worker thread, its traversal recorded
OrderInit ==
    /\ \E depth \in 0..MaxDepthCfg, files \in {1, AmpleFiles},
          force \in BOOLEAN, handler \in ConfigHandlers :
          Constructed(depth, files, 1, force, handler)
    /\ plugin_manager = None
    /\ site \in Sites
    /\ order = EmptyLog
    /\ call = NoCall
    /\ NoPacing
    /\ NoStore
    /\ NoBatch
    /\ NoRender
    /\ NoGovernor

SpecOrder == OrderInit /\ [][Next]_vars

\* ------------------------------------------------------------------ one wrapped call
\* the scripts of at most MaxScriptLen outcomes
Scripts == UNION {[1..n -> Outcomes] : n \in 1..MaxScriptLen}

\* random.uniform(0.5, 1.5), in tenths
Jitters == {5, 10, 15}

Handlers ==
    {ErrorHandler(rc, rd, eb, fs) :
        rc \in 0..MaxRetryCount, rd \in {2}, eb \in BOOLEAN, fs \in {"log", "skip", "raise"}}

\* a call of a function decorated with handler.retry, before it runs
RetryInit ==
    /\ Constructed(0, 0, 1, FALSE, ConfigHandler)
    /\ plugin_manager = None
    /\ site = "docs"
    /\ order = NoLog
    /\ \E h \in Handlers, script \in Scripts, jitters \in [1..MaxRetryCount -> Jitters] :
          call = [status |-> "pending", handler |-> h, script |-> script,
                  jitters |-> jitters]
    /\ NoPacing
    /\ NoStore
    /\ NoBatch
    /\ NoRender
    /\ NoGovernor

\* the wrapped call runs to its return (or its raise)
Invoke ==
    /\ call.status = "pending"
    /\ call' = [status |-> "done", handler |-> call.handler, script |-> call.script,
                jitters |-> call.jitters,
                result |-> wrapper(call.handler, call.script, call.jitters)]
    /\ UNCHANGED <<config_vars, shared_vars, queue_vars, main_vars, local_vars, delay_vars, store_vars, batch_vars, render_vars, governor_vars>>

RetryNext == Invoke

SpecRetry == RetryInit /\ [][RetryNext]_vars

\* ------------------------------------------------------------------ one file download
\* a Downloader after __init__, about to download one file: call.handler is
\* Downloader.error_handler, built from the ERROR_HANDLING configuration, and
\* call.script is what the body of _download_file does at each invocation
DownloaderInit ==
    /\ Constructed(0, 0, 1, FALSE, ConfigHandler)
    /\ plugin_manager = None
    /\ site = "docs"
    /\ order = NoLog
    /\ \E h \in Handlers, script \in Scripts :
          call = [status |-> "pending", handler |-> h, script |-> script,
                  jitters |-> NoJitter]
    /\ NoPacing
    /\ NoStore
    /\ NoBatch
    /\ NoRender
    /\ NoGovernor

\* Downloader._download_file is decorated with the module-level @retry(): its
\* wrapper belongs to a handler made with the default arguments
_download_file ==
    /\ call.status = "pending"
    /\ call' = [status |-> "done", handler |-> call.handler, script |-> call.script,
                jitters |-> call.jitters,
                result |-> wrapper(DefaultHandler, call.script, call.jitters)]
    /\ UNCHANGED <<config_vars, shared_vars, queue_vars, main_vars, local_vars, delay_vars, store_vars, batch_vars, render_vars, governor_vars>>

DownloaderNext == _download_file

SpecDownloader == DownloaderInit /\ [][DownloaderNext]_vars

\* ------------------------------------------------------------------ pacing
Max(a, b) == IF a >= b THEN a ELSE b

\* the last two of a series of times, t being the newest
LastTwo(times, t) == IF Len(times) < 2 THEN Append(times, t) ELSE <<times[2], t>>

\* random.uniform(delay * 0.5, delay * 1.5), to the tick
uniform(delay) == (delay \div 2)..((3 * delay) \div 2)

\* crawl workers and download workers share the process; the download workers
\* share the one GlobalDelayManager
PacingInit ==
    /\ Constructed(0, 0, 1, FALSE, ConfigHandler)
    /\ plugin_manager = None
    /\ site = "docs"
    /\ order = NoLog
    /\ call = NoCall
    /\ \E random_delay \in BOOLEAN, roles \in [Workers -> {"crawl", "download"}] :
          Pacing(GlobalDelayManager(DELAY, random_delay), roles)
    /\ NoStore
    /\ NoBatch
    /\ NoRender
    /\ NoGovernor

\* time passes
Tick ==
    /\ now < StartTime + MaxTime
    /\ now' = now + 1
    /\ UNCHANGED <<delay_manager, lock_owner, role, tpc, wake, release_times,
                   request_times>>

\* Downloader._download_file: the HEAD request of get_remote_timestamp
download_head(t) ==
    /\ role[t] = "download"
    /\ tpc[t] = "idle"
    /\ request_times' = LastTwo(request_times, now)
    /\ tpc' = [tpc EXCEPT ![t] = "wait"]
    /\ UNCHANGED <<now, delay_manager, lock_owner, role, wake, release_times>>

\* a wait that never sleeps
no_wait(delay_time, elapsed) == 0

\* GlobalDelayManager.wait: wait_time
wait_time(delay_time, elapsed) == Max(0, delay_time - elapsed)

\* GlobalDelayManager.wait: the lock is taken, the delay drawn, and the
\* thread sleeps with the lock held when wait_time > 0
wait_lock(t) ==
    /\ tpc[t] = "wait"
    /\ lock_owner = 0
    /\ lock_owner' = t
    /\ \E delay_time \in IF delay_manager.random_delay
                         THEN uniform(delay_manager.delay) ELSE {delay_manager.delay} :
          LET elapsed == now - delay_manager.last_request_time
              sleep == wait_time(delay_time, elapsed)
          IN  /\ wake' = [wake EXCEPT ![t] = now + sleep]
              /\ tpc' = [tpc EXCEPT ![t] = IF sleep > 0 THEN "sleep" ELSE "stamp"]
    /\ UNCHANGED <<now, delay_manager, role, release_times, request_times>>

\* time.sleep(wait_time) returns, not before wait_time has passed
wait_sleep(t) ==
    /\ tpc[t] = "sleep"
    /\ now >= wake[t]
    /\ tpc' = [tpc EXCEPT ![t] = "stamp"]
    /\ UNCHANGED <<now, delay_manager, lock_owner, role, wake, release_times,
                   request_times>>

\* GlobalDelayManager.wait: last_request_time is set and the lock released;
\* _download_file then sends its GET
wait_release(t) ==
    /\ tpc[t] = "stamp"
    /\ delay_manager' = [delay_manager EXCEPT !.last_request_time = now]
    /\ lock_owner' = 0
    /\ release_times' = LastTwo(release_times, now)
    /\ request_times' = LastTwo(request_times, now)
    /\ tpc' = [tpc EXCEPT ![t] = "idle"]
    /\ UNCHANGED <<now, role, wake>>

\* CrawlSite._crawl_page: the requests of one page
crawl_request(t) ==
    /\ role[t] = "crawl"
    /\ tpc[t] = "idle"
    /\ request_times' = LastTwo(request_times, now)
    /\ tpc' = [tpc EXCEPT ![t] = "delay"]
    /\ UNCHANGED <<now, delay_manager, lock_owner, role, wake, release_times>>

\* CrawlSite._add_delay: time.sleep(delay_time) in the worker's own thread
_add_delay(t) ==
    /\ tpc[t] = "delay"
    /\ \E delay_time \in IF delay_manager.random_delay THEN uniform(DELAY) ELSE {DELAY} :
          wake' = [wake EXCEPT ![t] = now + delay_time]
    /\ tpc' = [tpc EXCEPT ![t] = "asleep"]
    /\ UNCHANGED <<now, delay_manager, lock_owner, role, release_times, request_times>>

\* the sleep of _add_delay returns
_add_delay_return(t) ==
    /\ tpc[t] = "asleep"
    /\ now >= wake[t]
    /\ tpc' = [tpc EXCEPT ![t] = "idle"]
    /\ UNCHANGED <<now, delay_manager, lock_owner, role, wake, release_times,
                   request_times>>

PacingStep(t) ==
    \/ download_head(t)
    \/ wait_lock(t)
    \/ wait_sleep(t)
    \/ wait_release(t)
    \/ crawl_request(t)
    \/ _add_delay(t)
    \/ _add_delay_return(t)

PacingNext ==
    /\ Tick \/ \E t \in Workers : PacingStep(t)
    /\ UNCHANGED <<config_vars, shared_vars, queue_vars, main_vars, local_vars, call,
                   store_vars, batch_vars, render_vars, governor_vars>>

SpecPacing == PacingInit /\ [][PacingNext]_vars

\* ------------------------------------------------------------------ governor
\* the delay of the configuration file, in ticks
Delays == {DELAY, 2 * DELAY}

GovernorInit ==
    /\ Constructed(0, 0, 1, FALSE, ConfigHandler)
    /\ plugin_manager = None
    /\ site = "docs"
    /\ order = NoLog
    /\ call = NoCall
    /\ NoPacing
    /\ NoStore
    /\ NoBatch
    /\ NoRender
    /\ \E delay \in Delays, random_delay \in BOOLEAN :
          Governor([DELAY |-> delay, RANDOM_DELAY |-> random_delay])

\* GlobalDelayManager(delay, random_delay): __new__ creates an object only
\* when the class has no instance, and __init__ returns at once on an object
\* that is initialized
__new__(heap, current, delay, random_delay) ==
    IF current = 0
    THEN [heap |-> Append(heap, GlobalDelayManager(delay, random_delay)),
          instance |-> Len(heap) + 1]
    ELSE [heap |-> heap, instance |-> current]

\* Downloader.__init__: self.delay_manager = GlobalDelayManager(DELAY, RANDOM_DELAY)
NewDownloader ==
    /\ Len(built) < MaxDownloaders
    /\ LET made == __new__(instances, _instance, delay_config.DELAY,
                           delay_config.RANDOM_DELAY)
       IN  /\ instances' = made.heap
           /\ _instance' = made.instance
           /\ built' = Append(built, [delay_manager |-> made.instance, drawn |-> {}])
    /\ UNCHANGED <<delay_config, delay_vars>>

\* GlobalDelayManager.reset_instance()
reset_instance ==
    /\ _instance # 0
    /\ Len(instances) < MaxInstances
    /\ _instance' = 0
    /\ UNCHANGED <<delay_config, instances, built, delay_vars>>

\* Downloader._download_file: self.delay_manager.wait(), the sleep included
GovernorWait(d) ==
    /\ LET i == built[d].delay_manager
           governor == instances[i]
       IN  \E delay_time \in IF governor.random_delay
                             THEN uniform(governor.delay) ELSE {governor.delay} :
              LET sleep == wait_time(delay_time, now - governor.last_request_time)
              IN  /\ now + sleep <= StartTime + MaxTime
                  /\ now' = now + sleep
                  /\ instances' = [instances EXCEPT ![i].last_request_time = now + sleep]
                  /\ built' = [built EXCEPT ![d].drawn = @ \cup {delay_time}]
    /\ UNCHANGED <<delay_config, _instance, delay_manager, lock_owner, role, tpc, wake,
                   release_times, request_times>>

GovernorNext ==
    /\ \/ NewDownloader
       \/ reset_instance
       \/ \E d \in 1..Len(built) : GovernorWait(d)
       \/ Tick /\ UNCHANGED governor_vars
    /\ UNCHANGED <<config_vars, shared_vars, queue_vars, main_vars, local_vars, call,
                   store_vars, batch_vars, render_vars>>

SpecGovernor == GovernorInit /\ [][GovernorNext]_vars

\* ------------------------------------------------------------------ state store
\* the document save_state writes for one visited URL and one downloaded file
WholeDocument ==
    [visited_urls |-> JsonArray(<<target_url>>),
     downloaded_files |-> JsonArray(<<FilePath(target_url)>>),
     start_time |-> JsonNumber(1),
     stats |-> JsonObject([total_urls |-> JsonNumber(1), downloaded_files |-> JsonNumber(1),
                           failed_urls |-> JsonNumber(0)])]

\* the files a StateManager may find: none, a cut-off one, bytes that are no
\* UTF-8, JSON that is no object, a whole document, one with visited_urls
\* only, and documents with a number in the place of one member
StateFiles ==
    {None, Torn, Undecodable, Some(JsonNumber(0)), Some(JsonArray(<<>>)),
     Some(JsonObject(WholeDocument)),
     Some(JsonObject([visited_urls |-> WholeDocument.visited_urls]))}
        \cup {Some(JsonObject([WholeDocument EXCEPT ![k] = JsonNumber(0)])) :
                 k \in {"visited_urls", "downloaded_files", "stats"}}

\* what a thread adds: a URL of its own to visited_urls, its path to
\* downloaded_files
StoreItem(t, field) ==
    LET url == IF t = 1 THEN target_url ELSE PageA IN
    IF field = "visited_urls" THEN url ELSE FilePath(url)

\* the counter of stats that goes with a set-typed field
counter(field) == IF field = "visited_urls" THEN "total_urls" ELSE "downloaded_files"

\* a StateManager whose methods can be called: constructed, with the stats
\* dict its methods index
usable(m) == m.status = "ok" /\ DOMAIN m.state.stats = DOMAIN FreshState.stats

StoreInit ==
    /\ Constructed(0, 0, 1, FALSE, ConfigHandler)
    /\ plugin_manager = None
    /\ site = "docs"
    /\ order = NoLog
    /\ call = NoCall
    /\ NoPacing
    /\ \E file \in StateFiles : Store(file)
    /\ NoBatch
    /\ NoRender
    /\ NoGovernor

\* StateManager(state_file)
Construct ==
    /\ state_manager.status = "none"
    /\ state_manager' = StateManager(1, disk)
    /\ UNCHANGED <<disk, spc, sreg, added, snapshot, reloaded>>

\* add_visited_url / add_downloaded_file, first statement: the set's add
StoreAdd(t) ==
    /\ usable(state_manager)
    /\ spc[t] = "idle"
    /\ \E field \in {"visited_urls", "downloaded_files"} :
          LET item == StoreItem(t, field) IN
          /\ state_manager' = [state_manager EXCEPT !.state[field] = @ \cup {item}]
          /\ sreg' = [sreg EXCEPT ![t] = [field |-> field, item |-> item, len |-> 0]]
    /\ spc' = [spc EXCEPT ![t] = "len"]
    /\ UNCHANGED <<disk, added, snapshot, reloaded>>

\* second statement, right-hand side: len() of the set
StoreLen(t) ==
    /\ spc[t] = "len"
    /\ sreg' = [sreg EXCEPT ![t].len = Cardinality(state_manager.state[sreg[t].field])]
    /\ spc' = [spc EXCEPT ![t] = "stat"]
    /\ UNCHANGED <<disk, state_manager, added, snapshot, reloaded>>

\* second statement, the store into stats; the call returns
StoreStat(t) ==
    /\ spc[t] = "stat"
    /\ state_manager' = [state_manager EXCEPT !.state.stats[counter(sreg[t].field)] = sreg[t].len]
    /\ added' = [added EXCEPT ![sreg[t].field] = @ \cup {sreg[t].item}]
    /\ spc' = [spc EXCEPT ![t] = "idle"]
    /\ UNCHANGED <<disk, sreg, snapshot, reloaded>>

\* add_failed_url: the read of stats["failed_urls"] += 1
StoreFailedRead(t) ==
    /\ usable(state_manager)
    /\ spc[t] = "idle"
    /\ state_manager.state.stats.failed_urls < MaxFailedUrls
    /\ sreg' = [sreg EXCEPT ![t] = [field |-> "failed_urls", item |-> NoUrl,
                                    len |-> state_manager.state.stats.failed_urls]]
    /\ spc' = [spc EXCEPT ![t] = "inc"]
    /\ UNCHANGED <<disk, state_manager, added, snapshot, reloaded>>

\* add_failed_url: the write of stats["failed_urls"] += 1
StoreFailedWrite(t) ==
    /\ spc[t] = "inc"
    /\ state_manager' = [state_manager EXCEPT !.state.stats.failed_urls = sreg[t].len + 1]
    /\ spc' = [spc EXCEPT ![t] = "idle"]
    /\ UNCHANGED <<disk, sreg, added, snapshot, reloaded>>

\* save_state() by the thread that owns the StateManager
StoreSave ==
    /\ usable(state_manager)
    /\ \E outcome \in {"failed", "torn", "saved"} :
          /\ disk' = CASE outcome = "failed" -> disk
                        [] outcome = "torn" -> Torn
                        [] outcome = "saved" -> SavedDocument(state_manager.state)
          /\ snapshot' = CASE outcome = "failed" -> snapshot
                            [] outcome = "torn" -> None
                            [] outcome = "saved" -> Some(state_manager.state)
    /\ reloaded' = NoManager
    /\ UNCHANGED <<state_manager, spc, sreg, added>>

\* a fresh StateManager over the same file, later
Reload ==
    /\ state_manager.status # "none"
    /\ reloaded.status = "none"
    /\ reloaded' = StateManager(2, disk)
    /\ UNCHANGED <<disk, state_manager, spc, sreg, added, snapshot>>

StoreStep(t) ==
    \/ StoreAdd(t)
    \/ StoreLen(t)
    \/ StoreStat(t)
    \/ StoreFailedRead(t)
    \/ StoreFailedWrite(t)

StoreNext ==
    /\ \/ Construct
       \/ \E t \in Workers : StoreStep(t)
       \/ StoreSave
       \/ Reload
    /\ UNCHANGED <<config_vars, shared_vars, queue_vars, main_vars, local_vars, call,
                   delay_vars, batch_vars, render_vars, governor_vars>>

SpecStore == StoreInit /\ [][StoreNext]_vars

\* ------------------------------------------------------------------ downloads
\* the static resources a batch downloads
DownloadUrls == {AssetImg, AssetCss}

\* the outcome of one invocation of the body of _download_file for a url
\* whose path is not recorded: should_update on the timestamps, then the GET
_download_file_body(update, file_path, get) ==
    IF update = "TypeError" THEN Raise(NoResponse, <<"TypeError">>)
    ELSE IF update = "False" THEN Return(file_path)
    ELSE IF get.kind = "raise" THEN get
    ELSE Return(file_path)

\* os.path.exists(file_path)
exists(file_path, files) == file_path \in files

\* _download_file under its @retry(), for each state of the run: how it was
\* settled ("recorded": skipped on the state manager's word; "fresh": the
\* local file is up to date; "get": the GET was sent), and what it returned
DownloadFile ==
    [url \in DownloadUrls, recorded \in SUBSET {FilePath(u) : u \in DownloadUrls},
     files \in SUBSET {FilePath(u) : u \in DownloadUrls},
     head \in HeadOutcomes, down \in SUBSET DownloadUrls |->
        LET file_path == FilePath(url)
            local_timestamp == IF exists(file_path, files) THEN 2 ELSE 0
            update == should_update(RemoteTimestamp[head], local_timestamp)
            get == IF url \in down THEN ReadTimeout ELSE Ok
            body == _download_file_body(update, file_path, get)
            returned == wrapper(DefaultHandler, <<body>>, NoJitter)
        IN  IF file_path \in recorded
            THEN [how |-> "recorded", ret |-> Some(file_path), raised |-> FALSE]
            ELSE [how |-> CASE update = "TypeError" -> "error"
                            [] update = "False" -> "fresh"
                            [] OTHER -> "get",
                  ret |-> IF returned.ret = None THEN None ELSE Some(file_path),
                  raised |-> returned.raised]]

BatchInit ==
    /\ Constructed(0, 0, 1, FALSE, ConfigHandler)
    /\ plugin_manager = None
    /\ site = "docs"
    /\ order = NoLog
    /\ call = NoCall
    /\ NoPacing
    /\ NoStore
    /\ \E workers \in 1..MaxThreads,
          tasks \in UNION {[1..n -> DownloadUrls] : n \in 0..MaxTasks},
          recorded \in SUBSET {FilePath(u) : u \in DownloadUrls},
          files \in SUBSET {FilePath(u) : u \in DownloadUrls},
          head \in {HeadReply(200, 3), HeadReply(200, 1), ReadTimeout},
          down \in SUBSET DownloadUrls :
          Batch(workers, tasks, recorded, files, head, down)
    /\ NoRender
    /\ NoGovernor

\* run(): worker.start(), one thread after the other
BatchStart ==
    /\ drun \in {"constructed", "starting"}
    /\ \E t \in 1..downloader.threads :
          /\ dworker[t].pc = "unstarted"
          /\ \A earlier \in 1..(t - 1) : dworker[earlier].pc # "unstarted"
          /\ dworker' = [dworker EXCEPT ![t].pc = "loop"]
          /\ drun' = IF t = downloader.threads THEN "join" ELSE "starting"
    /\ UNCHANGED <<downloader, origin, local_files, dlog>>

\* run(): self.queue.join()
BatchQueueJoin ==
    /\ drun = "join"
    /\ downloader.unfinished_tasks = 0
    /\ drun' = "join_workers"
    /\ UNCHANGED <<downloader, dworker, origin, local_files, dlog>>

\* a run() that does not wait for its threads
not_joined(t) == TRUE

\* worker.join(): the thread has ended
ended(t) == dworker[t].pc \in {"unstarted", "done", "dead"}

\* run(): the worker.join() loop and `return self.results`
BatchReturn ==
    /\ drun = "join_workers"
    /\ \A t \in Workers : ended(t)
    /\ drun' = "returned"
    /\ dlog' = [dlog EXCEPT !.returned = downloader.results]
    /\ UNCHANGED <<downloader, dworker, origin, local_files>>

\* _worker: `while not self.queue.empty()`
BatchLoop(t) ==
    /\ dworker[t].pc = "loop"
    /\ dworker' = [dworker EXCEPT ![t].pc = IF downloader.queue = <<>> THEN "done" ELSE "get"]
    /\ UNCHANGED <<downloader, drun, origin, local_files, dlog>>

\* _worker: self.queue.get(block=False), which raises queue.Empty when
\* another worker took the last url since the test of the loop
BatchGet(t) ==
    /\ dworker[t].pc = "get"
    /\ IF downloader.queue = <<>>
       THEN /\ dworker' = [dworker EXCEPT ![t].pc = "empty"]
            /\ UNCHANGED downloader
       ELSE /\ dworker' = [dworker EXCEPT ![t].pc = "download",
                                          ![t].url = Head(downloader.queue)]
            /\ downloader' = [downloader EXCEPT !.queue = Tail(@)]
    /\ UNCHANGED <<drun, origin, local_files, dlog>>

\* _worker: result = self._download_file(url)
BatchDownload(t) ==
    /\ dworker[t].pc = "download"
    /\ LET url == dworker[t].url
           file_path == FilePath(url)
           done == DownloadFile[url, downloader.downloaded_files, local_files,
                                origin.head, origin.down]
       IN  /\ dworker' = [dworker EXCEPT ![t].pc = IF done.raised THEN "task_done"
                                                   ELSE "append",
                                         ![t].result = done.ret,
                                         ![t].raised = done.raised]
           /\ downloader' =
                 [downloader EXCEPT !.downloaded_files =
                     IF done.ret # None THEN @ \cup {file_path} ELSE @]
           /\ local_files' =
                 IF done.how = "get" /\ done.ret # None
                 THEN local_files \cup {file_path} ELSE local_files
           /\ dlog' = [dlog EXCEPT
                          !.skips = IF done.how = "recorded"
                                    THEN @ \cup {[url |-> url,
                                                  exists |-> exists(file_path, local_files)]}
                                    ELSE @,
                          !.sent = IF done.how = "get" THEN @ \cup {url} ELSE @]
    /\ UNCHANGED <<drun, origin>>

\* _worker: `with self.lock: self.results.append((url, result))`
BatchAppend(t) ==
    /\ dworker[t].pc = "append"
    /\ downloader' = [downloader EXCEPT
                         !.results = Append(@, <<dworker[t].url, dworker[t].result>>)]
    /\ dworker' = [dworker EXCEPT ![t].pc = "task_done"]
    /\ UNCHANGED <<drun, origin, local_files, dlog>>

\* _worker: `finally: self.queue.task_done()`, after a download and after
\* queue.Empty alike; Queue.task_done raises ValueError when unfinished_tasks
\* is 0 already, which ends the thread
BatchTaskDone(t) ==
    /\ dworker[t].pc \in {"task_done", "empty"}
    /\ IF downloader.unfinished_tasks = 0
       THEN /\ dworker' = [dworker EXCEPT ![t].pc = "dead"]
            /\ UNCHANGED downloader
       ELSE /\ downloader' = [downloader EXCEPT !.unfinished_tasks = @ - 1]
            /\ dworker' = [dworker EXCEPT ![t].pc = IF dworker[t].pc = "empty"
                                                   THEN "done" ELSE "loop"]
    /\ UNCHANGED <<drun, origin, local_files, dlog>>

BatchStep(t) ==
    \/ BatchLoop(t)
    \/ BatchGet(t)
    \/ BatchDownload(t)
    \/ BatchAppend(t)
    \/ BatchTaskDone(t)

BatchNext ==
    /\ \/ BatchStart
       \/ BatchQueueJoin
       \/ BatchReturn
       \/ \E t \in Workers : BatchStep(t)
    /\ UNCHANGED <<config_vars, shared_vars, queue_vars, main_vars, local_vars, call,
                   delay_vars, store_vars, render_vars, governor_vars>>

SpecBatch == BatchInit /\ [][BatchNext]_vars

\* ------------------------------------------------------------------ rendering
\* the pages the workers fetch
RenderUrls == {target_url, PageA}

\* what a render gives: the document, an empty document, or an exception
\* (the result is None)
RenderOutcomes == {Some("html"), Some(""), None}

\* JSRendererThread(enable=True, timeout) and its start(): the thread runs
\* only when Pyppeteer could be imported
JSRendererThread(available) ==
    [enable |-> available, thread |-> IF available THEN "init" ELSE "none",
     task_counter |-> 0, task_queue |-> <<>>, task |-> 0, result_dict |-> <<>>,
     events |-> {}]

is_alive(renderer) == renderer.thread \in {"init", "idle", "render"}

RenderInit ==
    /\ Constructed(0, 0, 1, FALSE, ConfigHandler)
    /\ plugin_manager = None
    /\ site = "docs"
    /\ order = NoLog
    /\ call = NoCall
    /\ NoPacing
    /\ NoStore
    /\ NoBatch
    /\ \E enabled \in BOOLEAN, available \in BOOLEAN : Render(enabled, available)
    /\ NoGovernor

\* _fetch_page_content is called for a page
FetchCall(t) ==
    /\ fpc[t] = "idle"
    /\ Len(rlog.submitted) + Cardinality({w \in Workers : fpc[w] # "idle"}) < MaxRenders
    /\ \E url \in RenderUrls : flocal' = [flocal EXCEPT ![t] = [NoFetch EXCEPT !.url = url]]
    /\ fpc' = [fpc EXCEPT ![t] = IF js_config.js_rendering_enabled THEN "get_js_renderer"
                                 ELSE "http"]
    /\ UNCHANGED <<js_config, _js_renderer, renderers, rlog>>

\* a renderer for every caller
always_new(current, enable) == TRUE

\* get_js_renderer: `if _js_renderer is None and enable`
need_renderer(current, enable) == current = 0 /\ enable

\* get_js_renderer(enable=True, timeout), under _js_renderer_lock
get_js_renderer(t) ==
    /\ fpc[t] = "get_js_renderer"
    /\ IF need_renderer(_js_renderer, TRUE) /\ Len(renderers) < MaxThreads
       THEN /\ renderers' = Append(renderers, JSRendererThread(js_config.PYPPETEER_AVAILABLE))
            /\ _js_renderer' = Len(renderers) + 1
       ELSE UNCHANGED <<renderers, _js_renderer>>
    /\ flocal' = [flocal EXCEPT ![t].js_renderer = _js_renderer']
    /\ fpc' = [fpc EXCEPT ![t] = "render_page"]
    /\ UNCHANGED <<js_config, rlog>>

\* a fetch that takes whatever the render gave
any_content(page_content) == TRUE

\* _fetch_page_content: `if page_content: return page_content`
has_content(page_content) == page_content \notin {None, Some("")}

\* _fetch_page_content after render_page returned
Rendered(t, page_content) ==
    /\ flocal' = [flocal EXCEPT ![t].page_content = page_content,
                                ![t].how = IF has_content(page_content) THEN "render" ELSE ""]
    /\ fpc' = [fpc EXCEPT ![t] = IF has_content(page_content) THEN "returned" ELSE "http"]

\* render_page: None when the thread is not running, else the task is put
\* on the queue of the render thread
render_page(t) ==
    /\ fpc[t] = "render_page"
    /\ LET r == flocal[t].js_renderer
           renderer == renderers[r]
           task_id == renderer.task_counter + 1
       IN  IF ~renderer.enable \/ ~is_alive(renderer)
           THEN /\ Rendered(t, None)
                /\ UNCHANGED <<renderers, rlog>>
           ELSE /\ renderers' =
                      [renderers EXCEPT ![r].task_counter = task_id,
                                        ![r].task_queue =
                                            Append(@, [task_id |-> task_id,
                                                       url |-> flocal[t].url])]
                /\ rlog' = [rlog EXCEPT !.submitted = Append(@, <<r, task_id>>)]
                /\ flocal' = [flocal EXCEPT ![t].task_id = task_id, ![t].waited = 0]
                /\ fpc' = [fpc EXCEPT ![t] = "wait"]
    /\ UNCHANGED <<js_config, _js_renderer>>

\* self._result_dict.pop(task_id, None)
pop(result_dict, task_id) ==
    [value |-> IF \E i \in 1..Len(result_dict) : result_dict[i].task_id = task_id
               THEN (CHOOSE entry \in {result_dict[i] : i \in 1..Len(result_dict)} :
                        entry.task_id = task_id).html
               ELSE None,
     rest |-> SelectSeq(result_dict, LAMBDA entry : entry.task_id # task_id)]

\* render_page: event.wait(timeout) returns True
RenderWake(t) ==
    /\ fpc[t] = "wait"
    /\ LET r == flocal[t].js_renderer
           popped == pop(renderers[r].result_dict, flocal[t].task_id)
       IN  /\ flocal[t].task_id \in renderers[r].events
           /\ renderers' = [renderers EXCEPT ![r].result_dict = popped.rest]
           /\ Rendered(t, popped.value)
    /\ UNCHANGED <<js_config, _js_renderer, rlog>>

\* event.wait(timeout): the timeout has passed
expired(waited) == waited >= RenderWait

\* render_page: event.wait(timeout) returns False
RenderTimeout(t) ==
    /\ fpc[t] = "wait"
    /\ expired(flocal[t].waited)
    /\ LET r == flocal[t].js_renderer
           popped == pop(renderers[r].result_dict, flocal[t].task_id)
       IN  /\ flocal[t].task_id \notin renderers[r].events
           /\ renderers' = [renderers EXCEPT ![r].result_dict = popped.rest]
           /\ Rendered(t, None)
    /\ UNCHANGED <<js_config, _js_renderer, rlog>>

\* _fetch_page_content: _do_request(), the GET under the retry of the handler
FetchHttp(t) ==
    /\ fpc[t] = "http"
    /\ rlog' = [rlog EXCEPT !.gets = @ \cup {<<t, flocal[t].url>>}]
    /\ flocal' = [flocal EXCEPT ![t].how = "http"]
    /\ fpc' = [fpc EXCEPT ![t] = "returned"]
    /\ UNCHANGED <<js_config, _js_renderer, renderers>>

\* the worker goes on with the page
FetchReturn(t) ==
    /\ fpc[t] = "returned"
    /\ rlog' = [rlog EXCEPT !.gets = @ \ {<<t, flocal[t].url>>}]
    /\ flocal' = [flocal EXCEPT ![t] = NoFetch]
    /\ fpc' = [fpc EXCEPT ![t] = "idle"]
    /\ UNCHANGED <<js_config, _js_renderer, renderers>>

\* _run: _init_browser(), after which the thread serves tasks or, when the
\* browser does not start, exits
LaunchBrowser(r) ==
    /\ renderers[r].thread = "init"
    /\ \E launched \in BOOLEAN :
          renderers' = [renderers EXCEPT ![r].thread = IF launched THEN "idle" ELSE "exited"]
    /\ UNCHANGED <<js_config, _js_renderer, fpc, flocal, rlog>>

\* _run: self._task_queue.get(timeout=1) yields a task
TakeTask(r) ==
    /\ renderers[r].thread = "idle"
    /\ renderers[r].task_queue # <<>>
    /\ renderers' = [renderers EXCEPT ![r].thread = "render",
                                      ![r].task = Head(renderers[r].task_queue).task_id,
                                      ![r].task_queue = Tail(@)]
    /\ rlog' = [rlog EXCEPT !.started = Append(@, <<r, Head(renderers[r].task_queue).task_id>>)]
    /\ UNCHANGED <<js_config, _js_renderer, fpc, flocal>>

\* _run: _render_page(url) has returned or raised; the result is stored
\* under the lock and the event of the task set
RenderDone(r) ==
    /\ renderers[r].thread = "render"
    /\ \E html \in RenderOutcomes :
          renderers' =
              [renderers EXCEPT ![r].thread = "idle",
                                ![r].result_dict =
                                    Append(@, [task_id |-> renderers[r].task, html |-> html]),
                                ![r].events = @ \cup {renderers[r].task},
                                ![r].task = 0]
    /\ UNCHANGED <<js_config, _js_renderer, fpc, flocal, rlog>>

\* time passes for the workers that wait for a render; a wait that has
\* expired returns before more time passes
RenderTick ==
    /\ \E t \in Workers : fpc[t] = "wait"
    /\ \A t \in Workers :
          fpc[t] = "wait" =>
              /\ ~expired(flocal[t].waited)
              /\ flocal[t].waited <= RenderWait
    /\ flocal' = [t \in Workers |->
                    IF fpc[t] = "wait" THEN [flocal[t] EXCEPT !.waited = @ + 1]
                    ELSE flocal[t]]
    /\ UNCHANGED <<js_config, _js_renderer, renderers, fpc, rlog>>

FetchStep(t) ==
    \/ FetchCall(t)
    \/ get_js_renderer(t)
    \/ render_page(t)
    \/ RenderWake(t)
    \/ RenderTimeout(t)
    \/ FetchHttp(t)
    \/ FetchReturn(t)

RenderStep(r) ==
    \/ LaunchBrowser(r)
    \/ TakeTask(r)
    \/ RenderDone(r)

RenderNext ==
    /\ \/ \E t \in Workers : FetchStep(t)
       \/ \E r \in 1..Len(renderers) : RenderStep(r)
       \/ RenderTick
    /\ UNCHANGED <<config_vars, shared_vars, queue_vars, main_vars, local_vars, call,
                   delay_vars, store_vars, batch_vars, governor_vars>>

SpecRender == RenderInit /\ [][RenderNext]_vars

\* ================================================================== claims
Keys(map) == DOMAIN map

\* the workers that hold a task
Holding(u) == {w \in Workers : task[w].url = u}

\* the workers inside _crawl_page past the test-and-mark
InFlight(u) ==
    {w \in Holding(u) : pc[w] \in {"fresh", "fetch", "scan", "putcheck", "put"}}

\* C1: in every reachable state, for every thread count and interleaving, the
\* number of entries of pages is at most max_files (in particular when
\* crawl_site() has returned)
C1_PagesWithinMaxFiles == Cardinality(Keys(pages)) <= max_files

\* the limit is reached while another worker, which passed its earlier tests of
\* the limit, still holds a fetched page to store
C1_Witness ==
    /\ max_files > 0
    /\ Cardinality(Keys(pages)) = max_files
    /\ \E w \in Workers : pc[w] = "fetch" /\ need_download[w]

\* C2: for every URL at most one _crawl_page passes the test-and-mark in a run,
\* so no two workers are past it with the same URL at the same time, and
\* pages[url] is written at most once
C2_OneCrawlPerUrl ==
    \A u \in AllUrls :
        /\ marks[u] <= 1
        /\ stores[u] <= 1
        /\ Cardinality(InFlight(u)) <= 1

\* a URL queued twice: one worker fetches it while another has dequeued it too
\* and is about to test-and-mark it
C2_Witness ==
    \E w1, w2 \in Workers :
        /\ w1 # w2
        /\ task[w1].url = task[w2].url
        /\ pc[w1] = "fetch"
        /\ pc[w2] = "crawl"

\* C3: every depth recorded in page_depths is at most max_depth, and so is the
\* depth of every task on the frontier or taken from it
C3_DepthBound ==
    /\ \A u \in Keys(page_depths) : page_depths[u] <= max_depth
    /\ \A i \in 1..Len(queue) : queue[i].depth <= max_depth
    /\ \A w \in Workers : task[w].depth <= max_depth

\* a page at max_depth that has links was stored and scanned, and none of its
\* children is to be put
C3_Witness ==
    \E w \in Workers :
        /\ pc[w] = "putcheck"
        /\ max_depth > 0
        /\ task[w].depth = max_depth
        /\ task[w].url \in Keys(page_depths)
        /\ Site(task[w].url).links # <<>>
        /\ child_urls[w] = <<>>

\* scope, stated on the URL itself: the target's netloc, and a path that starts
\* with /docs/ once both end with a slash
InScope(u) ==
    /\ u.netloc = "example.com"
    /\ LET path == IF u.path # <<>> /\ u.path[Len(u.path)] = "/"
                   THEN u.path ELSE u.path \o <<"/">>
       IN  Len(path) >= 3 /\ path[1] = "/" /\ path[2] = "docs" /\ path[3] = "/"

\* C4: every key of pages and every member of static_resources has the
\* target's domain and a path below the target directory
C4_ScopeContainment ==
    /\ \A u \in Keys(pages) : InScope(u)
    /\ \A u \in static_resources : InScope(u)

\* a page that links and references out-of-scope URLs was stored and scanned
C4_Witness ==
    /\ PageA \in Keys(pages)
    /\ AssetImg \in static_resources
    /\ \E w \in Workers : task[w].url = PageA /\ pc[w] = "putcheck"

\* a URL below https://example.com/docs/private/
Excluded(u) ==
    /\ u.scheme = "https"
    /\ u.netloc = "example.com"
    /\ Len(u.path) >= 5
    /\ SubSeq(u.path, 1, 5) = <<"/", "docs", "/", "private", "/">>

\* C5: a URL that starts with an exclude prefix is never marked, never sent a
\* request and never a key of pages
C5_ExcludeEnforced ==
    \A u \in AllUrls :
        Excluded(u) => marks[u] = 0 /\ u \notin requested /\ u \notin Keys(pages)

\* an excluded URL that an in-scope page links has been taken from the frontier
C5_Witness ==
    \E w \in Workers :
        /\ Excluded(task[w].url)
        /\ pc[w] = "check"
        /\ ~stop_event
        /\ target_url \in Keys(pages)

\* C6: with no stop signal, a crawl that was constructed returns, for every
\* thread count and max_files: the unfinished count reaches zero and every
\* worker exits (both are what the return waits for)
C6_CrawlReturns == (main = "constructed") ~> (stop_event \/ main = "returned")

\* the limit is reached, one worker has left, another is still about to put a
\* child on the frontier
C6_Witness ==
    /\ ~stop_event
    /\ reached_limit
    /\ \E w1, w2 \in Workers : pc[w1] = "put" /\ pc[w2] = "exited"

\* C7: once the stop signal is set the workers drain the frontier and exit,
\* so that crawl_site() returns: when every worker has exited after a stop
\* signal, no task is left unfinished for queue.join() to wait on
C7_StopDrainsFrontier ==
    (stop_event /\ main = "join" /\ \A w \in 1..threads : pc[w] = "exited")
        => unfinished_tasks = 0

\* C8: a crawl started after a completed one, with its state file on disk and
\* force_download false, starts with the visited URLs of the completed crawl
\* (so that the seed is not put on the frontier and no page is visited)
C8_ResumeKeepsVisited ==
    [][(Completed /\ ~force_download /\ main' = "constructed")
           => visited_urls \subseteq visited_urls']_vars

\* a script of k failures with a retryable HTTP status, then a success
FailsThenSucceeds(h, script, k) ==
    /\ Len(script) = k + 1
    /\ script[k + 1].kind = "return"
    /\ \A i \in 1..k :
          /\ script[i].kind = "raise"
          /\ script[i].response.status_code \in h.retryable_errors

\* C9: an operation that fails k < retry_count times with a retryable HTTP
\* status and then succeeds has its value returned after k + 1 invocations
\* and k sleeps
C9_RetriesUntilSuccess ==
    call.status = "done" =>
        \A k \in 0..(call.handler.retry_count - 1) :
            FailsThenSucceeds(call.handler, call.script, k) =>
                /\ call.result.ret = call.script[k + 1].value
                /\ ~call.result.raised
                /\ call.result.calls = k + 1
                /\ Len(call.result.delays) = k

\* C10 as stated: under exponential backoff the delays of the successive
\* retries of one call never decrease
C10_DelaysNonDecreasing ==
    (call.status = "done" /\ call.handler.exponential_backoff) =>
        \A n \in 1..(Len(call.result.delays) - 1) :
            call.result.delays[n + 1] >= call.result.delays[n]

\* C10, amended: under exponential backoff the delay of retry n is between 0.5
\* and 1.5 times 2^n * retry_delay, so that the delay of retry n + 1 is at
\* least two thirds of the delay of retry n (delays are in tenths of a second)
C10_DelaysWithinJitter ==
    (call.status = "done" /\ call.handler.exponential_backoff) =>
        LET delays == call.result.delays IN
        /\ \A n \in 1..Len(delays) :
              /\ delays[n] >= 5 * Pow2(n) * call.handler.retry_delay
              /\ delays[n] <= 15 * Pow2(n) * call.handler.retry_delay
        /\ \A n \in 1..(Len(delays) - 1) : 3 * delays[n + 1] >= 2 * delays[n]

\* two retries under exponential backoff, the second after a shorter sleep
C10_Witness ==
    /\ call.status = "done"
    /\ call.handler.exponential_backoff
    /\ Len(call.result.delays) >= 2
    /\ call.result.delays[2] < call.result.delays[1]

\* the message of an exception holds one of the transient-network substrings
Transient(error) ==
    \E net_error \in network_errors : Contains(lower(error.message), net_error)

\* C11: an exception that carries an HTTP response (error responses included)
\* is retryable exactly when the status code of the response is in the
\* retryable set of the handler; an exception without a response is retryable
\* exactly when its message holds a transient-network substring
C11_ClassifiedByStatus ==
    call.status = "done" =>
        \A i \in 1..Len(call.script) :
            LET error == call.script[i] IN
            error.kind = "raise" =>
                (_is_retryable_error(call.handler, error)
                    <=> IF error.response # NoResponse
                        THEN error.response.status_code \in call.handler.retryable_errors
                        ELSE Transient(error))

\* a failure that is retryable neither by its status nor by its message
NonRetryableFailure(h, outcome) ==
    /\ outcome.kind = "raise"
    /\ outcome.response.status_code \notin h.retryable_errors
    /\ ~Transient(outcome)

\* C12: one call of a wrapped operation invokes it at most retry_count + 1
\* times and sleeps at most retry_count times; when the first failure is not
\* retryable the operation is invoked once, nothing is slept and the failure
\* policy is applied at once
C12_BoundedAttempts ==
    call.status = "done" =>
        /\ call.result.calls <= call.handler.retry_count + 1
        /\ Len(call.result.delays) <= call.handler.retry_count
        /\ NonRetryableFailure(call.handler, call.script[1]) =>
              /\ call.result.calls = 1
              /\ call.result.delays = <<>>
              /\ call.result.ret = None
              /\ call.result.raised <=> call.handler.fail_strategy = "raise"

\* the retries are used up: retry_count + 1 invocations, retry_count sleeps
C12_Witness ==
    /\ call.status = "done"
    /\ call.handler.retry_count = MaxRetryCount
    /\ call.result.calls = MaxRetryCount + 1
    /\ Len(call.result.delays) = MaxRetryCount

\* C13: when a file download fails for good (every invocation raises), the
\* fail_strategy of the Downloader's configured handler decides: 'raise'
\* raises to the caller, 'skip' and 'log' return None without raising; the
\* retry_count of that handler bounds the invocations
C13_ConfiguredPolicyApplies ==
    (call.status = "done" /\ \A i \in 1..Len(call.script) : call.script[i].kind = "raise")
        => /\ call.result.raised <=> call.handler.fail_strategy = "raise"
           /\ call.result.ret = None
           /\ call.result.calls <= call.handler.retry_count + 1

\* every task that was put is on the queue or held by one worker that has not
\* left its loop
TaskAccounting ==
    /\ unfinished_tasks = Len(queue) + Cardinality({w \in Workers : task[w] # NoTask})
    /\ \A w \in Workers : pc[w] = "exited" => task[w] = NoTask

\* C14: an exception raised while a worker processes a task (the TypeError of
\* the freshness test, a fetch error raised under fail_strategy 'raise') stays
\* with that task: the task is marked done once, the worker is back at the
\* top of its loop, and neither the other workers nor crawl_site() are
\* touched
C14_FailureIsolated ==
    [][/\ TaskAccounting'
       /\ \A w \in Workers :
             (pc[w] = "except" /\ pc'[w] # "except") =>
                 /\ pc'[w] = "top"
                 /\ task'[w] = NoTask
                 /\ unfinished_tasks' = unfinished_tasks - 1
                 /\ queue' = queue
                 /\ main' = main
                 /\ \A v \in Workers \ {w} : pc'[v] = pc[v] /\ task'[v] = task[v]]_vars

\* a fetch error raised under fail_strategy 'raise' has reached the worker
\* while other tasks wait on the frontier
C14_Witness ==
    \E w \in Workers :
        /\ pc[w] = "except"
        /\ error_handler.fail_strategy = "raise"
        /\ task[w].url \in failed_fetches
        /\ queue # <<>>

\* C15: a page whose fetch yields no content is never a key of pages or of
\* page_depths and no worker ever extracts its links; the step in which the
\* fetch fails leaves pages, page_depths, downloaded_files and the frontier as
\* they were, and the worker has no child link left to put
C15_FailedFetchLeavesNothing ==
    [][/\ \A u \in failed_fetches' :
             /\ u \notin Keys(pages') /\ u \notin Keys(page_depths')
             /\ \A w \in Workers :
                   pc'[w] \in {"scan", "putcheck", "put"} => task'[w].url # u
       /\ (failed_fetches' \ failed_fetches # {}) =>
             /\ pages' = pages
             /\ page_depths' = page_depths
             /\ downloaded_files' = downloaded_files
             /\ queue' = queue
             /\ \A w \in Workers :
                   pc'[w] # pc[w] => pc'[w] \in {"top", "except"} /\ child_urls'[w] = <<>>]_vars

\* the crawl returned with the seed stored and one of its links, a page with
\* links of its own, fetched without content
C15_Witness ==
    /\ main = "returned"
    /\ ~stop_event
    /\ target_url \in Keys(pages)
    /\ PageA \in failed_fetches
    /\ Len(Site(PageA).links) > 0

\* C16: a local file with mtime T and an older, non-zero remote Last-Modified
\* make should_update false. With force_download false such a page does not
\* need download: it is fetched and scanned (its in-scope static resources are
\* recorded, its eligible links are made child URLs), and it is neither
\* stored in pages or page_depths nor counted in downloaded_files
C16_FreshPageScannedNotStored ==
    [][/\ \A T \in LocalTimestamps \ {0} : \A remote \in 1..(T - 1) :
             should_update(Some(remote), T) = "False"
       /\ \A w \in Workers :
             LET url == task[w].url
                 doc == Site(url)
             IN  ~need_download[w] =>
                     /\ (pc[w] = "fetch" /\ pc'[w] = "scan") =>
                           /\ pages' = pages
                           /\ page_depths' = page_depths
                           /\ downloaded_files' = downloaded_files
                     /\ pc[w] \in {"scan", "putcheck", "put"} =>
                           url \notin Keys(pages) /\ url \notin Keys(page_depths)
                     /\ (pc[w] = "scan" /\ pc'[w] # "scan") =>
                           /\ \A i \in 1..Len(doc.assets) :
                                 InScope(_normalize_url(doc.assets[i])) =>
                                     _normalize_url(doc.assets[i]) \in static_resources'
                           /\ \A i \in 1..Len(doc.links) :
                                 (/\ InScope(doc.links[i])
                                  /\ doc.links[i] \notin visited_urls
                                  /\ task[w].depth < max_depth) =>
                                     \E j \in 1..Len(child_urls'[w]) :
                                         child_urls'[w][j] = doc.links[i]]_vars

\* a page that did not need download was fetched and scanned: it is putting
\* its links on the frontier, its image is recorded, and it is not in pages
C16_Witness ==
    \E w \in Workers :
        /\ ~force_download
        /\ ~need_download[w]
        /\ pc[w] = "put"
        /\ task[w].url = PageA
        /\ PageA \notin Keys(pages)
        /\ AssetImg \in static_resources

\* the remote Last-Modified cannot be obtained: the HEAD request raises, the
\* status is not 200, or the header is missing
Unavailable(head) ==
    \/ head.kind = "raise"
    \/ head.kind = "return" /\ head.value[1].status_code # 200
    \/ head.kind = "return" /\ head.value[1].last_modified = 0

\* C17: get_remote_timestamp returns 0 whenever the remote Last-Modified
\* cannot be obtained, and the freshness test never fails the task of a page
C17_FreshnessNeverFailsTask ==
    [][/\ \A head \in HeadOutcomes : Unavailable(head) => RemoteTimestamp[head] = Some(0)
       /\ \A w \in Workers : pc[w] = "fresh" => pc'[w] # "except"]_vars

\* the delay that separates two requests at least: the delay of the state_manager
\* in fixed mode, half of it in random mode (twice the gap is compared)
Paced(times) ==
    Len(times) = 2 =>
        2 * (times[2] - times[1]) >=
            IF delay_manager.random_delay THEN delay_manager.delay
            ELSE 2 * delay_manager.delay

\* C18: the calls of wait() on the shared GlobalDelayManager are served one at
\* a time, and two consecutive returns of wait() are at least the delay apart
\* in fixed mode, at least half the delay in random mode
C18_ReleasesSpaced ==
    /\ Cardinality({t \in Workers : tpc[t] \in {"sleep", "stamp"}}) <= 1
    /\ Paced(release_times)

\* both threads are download workers: one had to sleep in wait() after the
\* other's return, and has returned
C18_Witness ==
    /\ \A t \in Workers : role[t] = "download"
    /\ Len(release_times) = 2
    /\ release_times[2] > release_times[1]
    /\ \E t \in Workers : wake[t] = release_times[2] /\ wake[t] > StartTime

\* C19: any two consecutive outbound requests of a run, page requests of the
\* crawl workers as well as asset downloads, are at least the governed delay
\* apart
C19_RequestsSpaced == Paced(request_times)

\* C20: save_state is atomic: at every point of a save, failed writes
\* included, the state file is absent or holds a complete document, the
\* previous one or the new one
C20_SaveAtomic == state_file # Torn

\* a state file that is unreadable or malformed: no JSON, bytes that are no
\* UTF-8, JSON that is no object, or an object with a member of the wrong type
Malformed(file) ==
    /\ file # None
    /\ \/ file \in {Torn, Undecodable}
       \/ file[1].json # "object"
       \/ \E k \in DOMAIN file[1].members :
             file[1].members[k].json # (CASE k = "stats" -> "object"
                                          [] k = "start_time" -> "number"
                                          [] OTHER -> "array")

\* C21: a StateManager constructed over an unreadable or malformed state file
\* does not raise and starts with the state of a fresh one
C21_MalformedFileIsAbsent ==
    (reloaded.status # "none" /\ Malformed(reloaded.file)) =>
        (reloaded.status = "ok" /\ reloaded.state = InitialState(2))

\* C22: round trip. A fresh StateManager constructed over the file a
\* successful save_state() wrote has the visited_urls, downloaded_files,
\* start_time and stats of the state that was saved
C22_SaveLoadRoundTrip ==
    (reloaded.status # "none" /\ snapshot # None) =>
        /\ reloaded.status = "ok"
        /\ reloaded.state.visited_urls = snapshot[1].visited_urls
        /\ reloaded.state.downloaded_files = snapshot[1].downloaded_files
        /\ reloaded.state.start_time = snapshot[1].start_time
        /\ reloaded.state.stats = snapshot[1].stats

\* a state with two visited URLs, a downloaded file and a failed URL was
\* saved and loaded by a second StateManager, constructed later
C22_Witness ==
    /\ reloaded.status = "ok"
    /\ snapshot # None
    /\ disk = SavedDocument(snapshot[1])
    /\ Cardinality(snapshot[1].visited_urls) = 2
    /\ Cardinality(snapshot[1].downloaded_files) = 1
    /\ snapshot[1].stats.failed_urls = 1
    /\ snapshot[1].start_time = 1

\* C23: the StateManager is safe for several threads calling it directly: no
\* added element is lost, and once every call has returned total_urls is the
\* size of visited_urls and downloaded_files the size of the set of files
C23_CountersMatchSets ==
    (state_manager.status = "ok" /\ state_manager.file = None
        /\ \A t \in Workers : spc[t] = "idle") =>
        /\ added.visited_urls \subseteq state_manager.state.visited_urls
        /\ added.downloaded_files \subseteq state_manager.state.downloaded_files
        /\ state_manager.state.stats.total_urls =
              Cardinality(state_manager.state.visited_urls)
        /\ state_manager.state.stats.downloaded_files =
              Cardinality(state_manager.state.downloaded_files)

\* how often a url is among the tasks, and among the results of a run
TaskCount(url) == Cardinality({i \in 1..Len(dlog.tasks) : dlog.tasks[i] = url})

ResultCount(url) == Cardinality({i \in 1..Len(dlog.returned) : dlog.returned[i][1] = url})

\* C24: run() returns one (url, path or None) entry for every url added, None
\* for the urls whose download failed and the path for the others, and
\* returns only when every queued url has been processed and every worker
\* has ended
C24_OneResultPerTask ==
    drun = "returned" =>
        /\ \A url \in DownloadUrls : ResultCount(url) = TaskCount(url)
        /\ Len(dlog.returned) = Len(dlog.tasks)
        /\ downloader.queue = <<>>
        /\ \A t \in Workers : dworker[t].pc \in {"unstarted", "done", "dead"}
        /\ \A i \in 1..Len(dlog.returned) :
              LET url == dlog.returned[i][1]
                  result == dlog.returned[i][2]
              IN  /\ result \in {None, Some(FilePath(url))}
                  /\ result = None => (url \in origin.down \/ origin.head = ReadTimeout)
                  /\ (url \in origin.down /\ url \in dlog.sent) => result = None

\* two workers ran two tasks, one download failed after its retries and the
\* other succeeded after it, and one worker's task_done came once too often
C24_Witness ==
    /\ drun = "returned"
    /\ downloader.threads = 2
    /\ Len(dlog.returned) = 2
    /\ dlog.returned[1][2] = None
    /\ dlog.returned[2][2] # None
    /\ \E t \in Workers : dworker[t].pc = "dead"

\* C25: the Downloader skips a resource on the word of the state manager only
\* when its file is still in output_dir; a recorded path whose file is
\* missing is downloaded again
C25_SkipOnlyIfFileExists == \A skip \in dlog.skips : skip.exists

\* C26: the render requests of all crawl workers are served by one render
\* thread, one at a time and in the order of their submission: there is at
\* most one JSRendererThread, at most one render in progress, and the tasks
\* started are the first of the tasks submitted, in that order
C26_OneRenderAtATime ==
    /\ Len(renderers) <= 1
    /\ Cardinality({r \in 1..Len(renderers) : renderers[r].thread = "render"}) <= 1
    /\ Len(rlog.started) <= Len(rlog.submitted)
    /\ \A i \in 1..Len(rlog.started) : rlog.started[i] = rlog.submitted[i]

\* both workers wait for their renders: one page is being rendered and the
\* request of the other worker is in the queue
C26_Witness ==
    /\ \A t \in Workers : fpc[t] = "wait"
    /\ Len(renderers) = 1
    /\ renderers[1].thread = "render"
    /\ Len(renderers[1].task_queue) = 1

\* C27: with rendering enabled a worker waits for its render no longer than
\* the wait timeout, and a render without content (thread not running,
\* render error, timeout) is followed by the direct GET of the same url
C27_BoundedWaitThenFallback ==
    \A t \in Workers :
        /\ fpc[t] = "wait" => flocal[t].waited <= RenderWait
        /\ (fpc[t] = "returned" /\ js_config.js_rendering_enabled) =>
              IF flocal[t].page_content \in {None, Some("")}
              THEN flocal[t].how = "http" /\ <<t, flocal[t].url>> \in rlog.gets
              ELSE flocal[t].how = "render" /\ <<t, flocal[t].url>> \notin rlog.gets

\* a worker whose wait for the render timed out has fetched the page with
\* the direct GET
C27_Witness ==
    \E t \in Workers :
        /\ fpc[t] = "returned"
        /\ flocal[t].task_id # 0
        /\ flocal[t].waited = RenderWait
        /\ flocal[t].task_id \notin renderers[flocal[t].js_renderer].events
        /\ flocal[t].how = "http"

\* C28: in a crawl with enabled plugins, the step that ends a page fetch calls
\* the on_page_crawled hook exactly when the fetch yielded content - also when
\* the page is then left uncached - and never when the fetch failed; no other
\* step of the run calls it; a page has at most one call in a run, made with
\* the content that is stored and before the page was stored, and a page that
\* is stored or whose links are being extracted has had its call
C28_HookOncePerFetchedPage ==
    [][/\ \A w \in Workers :
             (pc[w] = "fetch" /\ pc'[w] # "fetch") =>
                LET url == task[w].url IN
                IF url \in failed_fetches'
                THEN hooks'[url] = hooks[url]
                ELSE Len(hooks'[url]) = Len(hooks[url]) + 1
       /\ (hooks' # hooks) =>
             \/ \E w \in Workers : pc[w] = "fetch" /\ pc'[w] # "fetch"
             \/ main' = "constructed" /\ hooks' = [u \in AllUrls |-> <<>>]
       /\ \A u \in AllUrls :
             /\ Len(hooks'[u]) <= 1
             /\ u \in failed_fetches' => hooks'[u] = <<>>
             /\ \A i \in 1..Len(hooks'[u]) : hooks'[u][i].stored = 0
             /\ stores'[u] > 0 =>
                   /\ Len(hooks'[u]) = 1
                   /\ hooks'[u][1].content = pages'[u]
       /\ \A w \in Workers :
             pc'[w] \in {"scan", "putcheck"} => Len(hooks'[task'[w].url]) = 1
      ]_vars

\* a hooked page that is not stored while another page of the run is, and a
\* page whose fetch failed
C28_Witness ==
    /\ plugin_manager # None
    /\ \E u \in AllUrls : Len(hooks[u]) = 1 /\ stores[u] = 0
    /\ \E u \in AllUrls : Len(hooks[u]) = 1 /\ stores[u] = 1
    /\ failed_fetches # {}

\* C29: when crawl_site() has returned, the statistics of the state manager,
\* which the run reports, count the run: total_urls the URLs marked visited in
\* the run, downloaded_files the pages stored in it, and failed_urls the page
\* tasks whose fetch failed
C29_StatsAccurate ==
    main = "returned" =>
        /\ state.stats.total_urls = Cardinality({u \in AllUrls : marks[u] > 0})
        /\ state.stats.downloaded_files = Cardinality({u \in AllUrls : stores[u] > 0})
        /\ state.stats.failed_urls = Cardinality(failed_fetches)

\* C30: in every reachable state every stored page is in visited_urls, and so
\* is every URL that was marked in the run, whatever became of its task; no
\* step of a run removes a URL from visited_urls (the set is replaced only when
\* a new crawler is constructed for the next run)
C30_StoredAreVisitedAndVisitedGrows ==
    [][/\ Keys(pages') \subseteq visited_urls'
       /\ \A u \in AllUrls : marks'[u] > 0 => u \in visited_urls'
       /\ main' # "constructed" => visited_urls \subseteq visited_urls'
      ]_vars

\* a returned crawl that always downloads, with as many stored pages as the
\* ceiling allows and a visited URL whose page was fetched (its hook was
\* called) and then rejected by the ceiling
C30_Witness ==
    /\ main = "returned"
    /\ force_download
    /\ Keys(pages) # {}
    /\ Cardinality(Keys(pages)) = max_files
    /\ \E u \in visited_urls :
          /\ marks[u] > 0
          /\ Len(hooks[u]) = 1
          /\ u \notin Keys(pages)

\* C31: no member of static_resources starts with an entry of the exclude
\* list, so no excluded resource is handed to the downloader
C31_ExcludedResourceSkipped ==
    \A r \in static_resources : ~_is_in_exclude_list(r)

\* C32: the depth recorded for a stored page is the depth of the first
\* frontier task that was put for its URL
C32_DepthOfFirstDiscovery ==
    \A u \in Keys(page_depths) : page_depths[u] = discovered[u]

\* C33: every member of visited_urls and every key of pages is in normalized
\* form, and of the URLs that differ only in fragment or host case at most one
\* is fetched and stored
C33_VisitedNormalized ==
    /\ \A u \in visited_urls \cup Keys(pages) : u = _normalize_url(u)
    /\ \A u, v \in AllUrls :
          (u # v /\ _normalize_url(u) = _normalize_url(v)) =>
              /\ ~(u \in requested /\ v \in requested)
              /\ ~(u \in Keys(pages) /\ v \in Keys(pages))

\* the depth-first traversal from task t, the URLs in seen being visited: the
\* tasks in the order they are taken, each page followed by the whole subtree
\* of each of its children that were not visited when its links were
\* extracted, the children in document order; a page whose links were not
\* extracted has no children
RECURSIVE DepthFirst(_, _)
RECURSIVE DepthFirstAll(_, _)
DepthFirst(t, seen) ==
    IF \/ t.url \in seen
       \/ _is_in_exclude_list(t.url)
       \/ ~_is_in_target_directory(t.url)
       \/ t.depth > max_depth
    THEN [order |-> <<t>>, seen |-> seen]
    ELSE LET marked == seen \cup {t.url}
             links == Site(t.url).links
             children ==
                 IF t.url \in order.scanned
                 THEN SelectSeq(links, LAMBDA c :
                         /\ _is_same_domain(c)
                         /\ _is_in_target_directory(c)
                         /\ t.depth < max_depth
                         /\ c \notin marked)
                 ELSE <<>>
             below == DepthFirstAll(
                 [i \in 1..Len(children) |-> [url |-> children[i], depth |-> t.depth + 1]],
                 marked)
         IN  [order |-> <<t>> \o below.order, seen |-> below.seen]

DepthFirstAll(ts, seen) ==
    IF ts = <<>> THEN [order |-> <<>>, seen |-> seen]
    ELSE LET first == DepthFirst(Head(ts), seen)
             rest == DepthFirstAll(Tail(ts), first.seen)
         IN  [order |-> first.order \o rest.order, seen |-> rest.seen]

\* the URLs that were visited when the run began
VisitedBefore == {u \in visited_urls : marks[u] = 0}

\* the depth-first traversal of the run
Traversal ==
    IF target_url \in VisitedBefore THEN <<>>
    ELSE DepthFirst([url |-> target_url, depth |-> 0], VisitedBefore).order

IsPrefix(s, t) == Len(s) <= Len(t) /\ s = SubSeq(t, 1, Len(s))

\* C34: with one worker thread and the ceiling not reached, the tasks are taken
\* from the queue in the order of the depth-first traversal: the children of a
\* page in document order, the whole subtree of a child before its next sibling
C34_DepthFirstInDocumentOrder ==
    (threads = 1 /\ order.kept /\ downloaded_files < max_files) =>
        IsPrefix(order.dequeued, Traversal)

\* a returned crawl of the docs site to depth 2: the seed's children a.html and
\* b.html were both taken at depth 1, a.html before b.html, and pages of
\* a.html's subtree, at depth 2, in between
C34_Witness ==
    /\ threads = 1 /\ order.kept /\ downloaded_files < max_files
    /\ main = "returned"
    /\ site = "docs"
    /\ order.dequeued = Traversal
    /\ \E i, j, k \in 1..Len(order.dequeued) :
          /\ i < j /\ j < k
          /\ order.dequeued[i] = [url |-> PageA, depth |-> 1]
          /\ order.dequeued[j].depth = 2
          /\ order.dequeued[k] = [url |-> PageB, depth |-> 1]

\* the pages that a crawl may store: same domain, in the target directory, not
\* excluded
Crawlable(u) ==
    _is_same_domain(u) /\ _is_in_target_directory(u) /\ ~_is_in_exclude_list(u)

\* the URLs at link distance n or less from the seed, over crawlable pages
RECURSIVE Within(_)
Within(n) ==
    IF n = 0 THEN {target_url}
    ELSE LET near == Within(n - 1) IN
         near \cup {c \in AllUrls :
                      \E u \in near :
                          Crawlable(u) /\ \E i \in 1..Len(Site(u).links) : Site(u).links[i] = c}

\* C35: when crawl_site() has returned from a run that always downloads, was
\* not stopped, did not reach the ceiling and stored every page it visited (no
\* fetch failed), every crawlable page at link distance max_depth or less from
\* the seed is a key of pages
C35_BoundedTraversalComplete ==
    (/\ main = "returned"
     /\ force_download
     /\ ~stop_event
     /\ downloaded_files < max_files
     /\ failed_fetches = {}
     /\ \A u \in AllUrls : marks[u] > 0 => u \in Keys(pages))
    => \A u \in Within(max_depth) : Crawlable(u) => u \in Keys(pages)

\* C36: while a worker holds a page whose child links it is about to put, and
\* neither the ceiling nor the stop signal applies, no worker has left its loop
C36_WorkersStayWhilePageInFlight ==
    (/\ ~stop_event
     /\ ~reached_limit
     /\ \E w \in Workers : child_urls[w] # <<>>)
    => \A w \in Workers : pc[w] # "exited"

\* C37: the downloader queue's unfinished-task count never goes below the
\* number of urls still queued or taken by a worker and not yet marked
\* done, and no worker dies of a task_done() called too many times
C37_TaskDoneOncePerDequeuedUrl ==
    /\ downloader.unfinished_tasks >=
          Len(downloader.queue)
          + Cardinality({t \in Workers : dworker[t].pc \in {"download", "append", "task_done"}})
    /\ \A t \in Workers : dworker[t].pc # "dead"

\* C38: once every render_page call has returned and the render thread has
\* no task left or in hand, _result_dict is empty: no result stays behind
\* for a caller that timed out
C38_ResultTableEmptyWhenIdle ==
    \A r \in 1..Len(renderers) :
        (/\ \A t \in Workers : ~(fpc[t] = "wait" /\ flocal[t].js_renderer = r)
         /\ renderers[r].thread # "render"
         /\ renderers[r].task_queue = <<>>)
        => renderers[r].result_dict = <<>>

\* C39: outside the lock the counter equals the number of stored pages and
\* the depth map has the keys of the page map; a step that changes any of
\* the three either stores one new page in all of them or is the
\* construction of a new orchestrator, which empties all of them
C39_CounterAndMapsInStep ==
    [][/\ downloaded_files' = Cardinality(Keys(pages'))
       /\ Keys(page_depths') = Keys(pages')
       /\ <<downloaded_files, pages, page_depths>> # <<downloaded_files', pages', page_depths'>>
          => \/ \E u \in AllUrls \ Keys(pages) :
                   /\ Keys(pages') = Keys(pages) \cup {u}
                   /\ Keys(page_depths') = Keys(page_depths) \cup {u}
                   /\ downloaded_files' = downloaded_files + 1
                   /\ \A v \in Keys(pages) :
                         pages'[v] = pages[v] /\ page_depths'[v] = page_depths[v]
             \/ /\ main' = "constructed"
                /\ downloaded_files' = 0
                /\ pages' = EmptyMap
                /\ page_depths' = EmptyMap]_vars

\* two pages have been stored, the second by a worker that ran beside another
C39_Witness ==
    /\ downloaded_files = 2
    /\ Cardinality(Keys(pages)) = 2
    /\ threads = 2
    /\ \E w \in Workers : pc[w] \in {"scan", "putcheck"}

\* C40: the governor of every Downloader has the delay and the random mode the
\* Downloader passed on construction, the configured DELAY and RANDOM_DELAY,
\* and its wait() draws its delays from them
C40_GovernorUsesPassedValues ==
    \A d \in 1..Len(built) :
        LET governor == instances[built[d].delay_manager]
        IN  /\ governor.delay = delay_config.DELAY
            /\ governor.random_delay = delay_config.RANDOM_DELAY
            /\ built[d].drawn \subseteq
                  IF delay_config.RANDOM_DELAY THEN uniform(delay_config.DELAY)
                  ELSE {delay_config.DELAY}

====
